---- MODULE Spec2Model ----
(***************************************************************************)
(* Model of redpanda-chart-upgrade: the values.yaml migration pipeline of  *)
(* src/src/main.rs (structural passes, merge-keep-first, cleanups) and the *)
(* generalized schema transformation engine of src/src/*.rs.               *)
(*                                                                         *)
(* A serde_yaml::Value is a tagged record:                                 *)
(*   [k |-> "null"], [k |-> "bool", v |-> b], [k |-> "str", v |-> s],      *)
(*   [k |-> "seq", s |-> <<...>>], [k |-> "map", m |-> [key |-> Value]].   *)
(* A serde_yaml::Mapping is a function from keys to Values; its equality   *)
(* ignores insertion order, as IndexMap's does.                            *)
(***************************************************************************)
EXTENDS Integers, Sequences, FiniteSets, TLC

VARIABLES
    file1,          \* main: the operator's values.yaml as parsed, before any pass
    data1,          \* main: the tree being migrated
    data2,          \* main: the reference values.yaml of the latest chart
    pc,             \* main: the stage about to run, or "exit" / "done"
    ran,            \* main: the stages that ran so far, in order
    output,         \* main: the tree written to the output file, None before
    primary,        \* merge harness: first argument of merge (val1 on entry)
    secondary,      \* merge harness: second argument of merge (val2)
    merged,         \* merge harness: val1 after merge returned
    mpc,            \* merge harness: "call" before merge, "merged" after
    self_registry,  \* engine: the SchemaRegistry
    registered,     \* engine: the number of registration calls made
    input_config,   \* engine: the configuration handed to the call
    target_version, \* engine: the target of the call, None before
    source_version, \* engine: the detected source version
    path_to_target, \* engine: the resolved path
    rule_list,      \* rules harness: the rule list handed to the call
    applied_transformations, \* engine: the transformations applied so far
    warnings,       \* engine: the warnings recorded so far
    result,         \* engine: what the call returned, None before
    epc,            \* engine: the step the call is at
    registration,   \* registry: what the last add_transformation_rules returned
    arg,            \* function harnesses: the arguments of the call
    ret,            \* function harnesses: what the call returned, None before
    hpc             \* function harnesses: "call" before the call, "returned" after

vars ==
    <<file1, data1, data2, pc, ran, output, primary, secondary, merged, mpc, self_registry,
      registered, input_config, target_version, source_version, path_to_target, rule_list,
      applied_transformations, warnings, result, epc, registration,
      arg, ret, hpc>>

pipelineVars == <<file1, data1, data2, pc, ran, output>>

mergeVars == <<primary, secondary, merged, mpc>>

engineVars ==
    <<self_registry, registered, input_config, target_version, source_version, path_to_target,
      rule_list, applied_transformations, warnings, result, epc,
      registration>>

harnessVars == <<arg, ret, hpc>>

\* what the pipeline leaves alone
notPipeline == <<mergeVars, engineVars, harnessVars>>

\* what the merge harness leaves alone
notMerge == <<pipelineVars, engineVars, harnessVars>>

\* what the registry and the engine leave alone
notEngine == <<pipelineVars, mergeVars, harnessVars>>

\* what the function harnesses leave alone
notHarness == <<pipelineVars, mergeVars, engineVars>>

(***************************************************************************)
(* serde_yaml::Value constructors and Mapping operations                   *)
(***************************************************************************)
Null == [k |-> "null"]

Bool(b) == [k |-> "bool", v |-> b]

Str(s) == [k |-> "str", v |-> s]

Sequence(s) == [k |-> "seq", s |-> s]

Mapping(m) == [k |-> "map", m |-> m]

EmptyMap == [key \in {} |-> Null]

is_mapping(val) == val.k = "map"

contains_key(map, key) == key \in DOMAIN map

insert(map, key, val) ==
    [x \in (DOMAIN map) \cup {key} |-> IF x = key THEN val ELSE map[x]]

remove(map, key) == [x \in (DOMAIN map) \ {key} |-> map[x]]

\* map.entry(key).or_insert(val)
or_insert(map, key, val) ==
    IF contains_key(map, key) THEN map ELSE insert(map, key, val)

\* Some(Value::Mapping(..)) = map.get(key)
has_mapping(map, key) == contains_key(map, key) /\ is_mapping(map[key])

(***************************************************************************)
(* merge (main.rs): merge-keep-first                                       *)
(***************************************************************************)
RECURSIVE merge(_, _)

\* faulty variant: a key of val2 that val1 lacks is not inserted
RECURSIVE merge_no_insert(_, _)
merge_no_insert(val1, val2) ==
    IF is_mapping(val1) /\ is_mapping(val2)
    THEN Mapping([key \in DOMAIN val1.m |->
            IF contains_key(val2.m, key)
               /\ is_mapping(val1.m[key]) /\ is_mapping(val2.m[key])
            THEN merge_no_insert(val1.m[key], val2.m[key])
            ELSE val1.m[key]])
    ELSE val1

\* faulty variant: on a key of both trees that is not a mapping on both sides, val2 wins
RECURSIVE merge_overwrite(_, _)
merge_overwrite(val1, val2) ==
    IF is_mapping(val1) /\ is_mapping(val2)
    THEN Mapping([key \in (DOMAIN val1.m) \cup (DOMAIN val2.m) |->
            IF ~contains_key(val2.m, key) THEN val1.m[key]
            ELSE IF ~contains_key(val1.m, key) THEN val2.m[key]
            ELSE merge_overwrite(val1.m[key], val2.m[key])])
    ELSE val2

\* faulty variant: two operands that are not both mappings and differ give null
RECURSIVE merge_conflict_null(_, _)
merge_conflict_null(val1, val2) ==
    IF is_mapping(val1) /\ is_mapping(val2)
    THEN Mapping([key \in (DOMAIN val1.m) \cup (DOMAIN val2.m) |->
            IF ~contains_key(val2.m, key) THEN val1.m[key]
            ELSE IF ~contains_key(val1.m, key) THEN val2.m[key]
            ELSE merge_conflict_null(val1.m[key], val2.m[key])])
    ELSE IF val1 = val2 THEN val1 ELSE Null

merge(val1, val2) ==
    IF is_mapping(val1) /\ is_mapping(val2)
    THEN Mapping([key \in (DOMAIN val1.m) \cup (DOMAIN val2.m) |->
            IF ~contains_key(val2.m, key)
            THEN val1.m[key]
            ELSE LET v2 == val2.m[key]
                     entry == IF contains_key(val1.m, key)
                              THEN val1.m[key] ELSE v2
                 IN  IF is_mapping(entry) /\ is_mapping(v2)
                     THEN merge(entry, v2)
                     ELSE entry])
    ELSE val1

(***************************************************************************)
(* Helpers shared by the passes of main.rs                                 *)
(***************************************************************************)
\* Option::None
None == [k |-> "none"]

is_some(opt) == opt # None

\* map.get(key).cloned()
get(map, key) == IF contains_key(map, key) THEN map[key] ELSE None

\* for (k, v) in src { dst.insert(k, v) }
insert_all(dst, src) ==
    [x \in (DOMAIN dst) \cup (DOMAIN src) |->
        IF x \in DOMAIN src THEN src[x] ELSE dst[x]]

\* for (k, v) in src { dst.entry(k).or_insert(v) }
or_insert_all(dst, src) ==
    [x \in (DOMAIN dst) \cup (DOMAIN src) |->
        IF x \in DOMAIN dst THEN dst[x] ELSE src[x]]

remove_keys(map, keys) == [x \in (DOMAIN map) \ keys |-> map[x]]

\* if let Some(v) = opt { map.insert(key, v) }
insert_some(map, key, opt) == IF is_some(opt) THEN insert(map, key, opt) ELSE map

\* if let Some(v) = opt { map.entry(key).or_insert(v) }
or_insert_some(map, key, opt) ==
    IF is_some(opt) THEN or_insert(map, key, opt) ELSE map

\* if let Some(Value::Mapping(inner)) = map.get_mut(key) { F(inner) }
update_mapping(map, key, F(_)) ==
    IF has_mapping(map, key) THEN insert(map, key, Mapping(F(map[key].m))) ELSE map

is_empty_mapping(val) == is_mapping(val) /\ DOMAIN val.m = {}

is_sequence(val) == val.k = "seq"

is_empty_sequence(val) == is_sequence(val) /\ Len(val.s) = 0

\* v.as_bool().unwrap_or(false) on map.get(key)
bool_or_false(map, key) ==
    IF contains_key(map, key) /\ map[key].k = "bool" THEN map[key].v ELSE FALSE

(***************************************************************************)
(* rename_nested_keys (main.rs), one operator per block of the function,   *)
(* each on the serde_yaml::Mapping `map` of the node being visited         *)
(***************************************************************************)
\* resources.cpu.cores / resources.memory.container.max -> requests, limits
rename_resources(map) ==
    IF has_mapping(map, "resources")
    THEN LET resources_map == map["resources"].m
             cpu_value ==
                 IF has_mapping(resources_map, "cpu")
                 THEN get(resources_map["cpu"].m, "cores") ELSE None
             memory_value ==
                 IF has_mapping(resources_map, "memory")
                    /\ has_mapping(resources_map["memory"].m, "container")
                 THEN get(resources_map["memory"].m["container"].m, "max")
                 ELSE None
             requests_map ==
                 insert_some(insert_some(EmptyMap, "cpu", cpu_value),
                             "memory", memory_value)
         IN  IF is_some(cpu_value) \/ is_some(memory_value)
             THEN insert(map, "resources",
                      Mapping(insert(insert(resources_map,
                                  "requests", Mapping(requests_map)),
                                  "limits", Mapping(requests_map))))
             ELSE map
    ELSE map

\* faulty variant: the hoist inserts a key only when tiered.config lacks it
rename_tiered_config_keep(map) ==
    IF contains_key(map, "tieredConfig")
    THEN LET removed == map["tieredConfig"]
             rest == remove(map, "tieredConfig")
         IN  IF is_mapping(removed)
             THEN IF has_mapping(rest, "tiered")
                  THEN LET tiered_map ==
                               or_insert(rest["tiered"].m, "config", Mapping(EmptyMap))
                           config_entry == tiered_map["config"]
                       IN  IF is_mapping(config_entry)
                           THEN insert(rest, "tiered",
                                    Mapping(insert(tiered_map, "config",
                                        Mapping(or_insert_all(config_entry.m, removed.m)))))
                           ELSE insert(rest, "tiered", Mapping(tiered_map))
                  ELSE insert(rest, "tiered",
                           Mapping("config" :> Mapping(removed.m)))
             ELSE rest
    ELSE map

\* tieredConfig.* -> tiered.config.*
rename_tiered_config(map) ==
    IF contains_key(map, "tieredConfig")
    THEN LET removed == map["tieredConfig"]
             rest == remove(map, "tieredConfig")
         IN  IF is_mapping(removed)
             THEN IF has_mapping(rest, "tiered")
                  THEN LET tiered_map ==
                               or_insert(rest["tiered"].m, "config", Mapping(EmptyMap))
                           config_entry == tiered_map["config"]
                       IN  IF is_mapping(config_entry)
                           THEN insert(rest, "tiered",
                                    Mapping(insert(tiered_map, "config",
                                        Mapping(insert_all(config_entry.m, removed.m)))))
                           ELSE insert(rest, "tiered", Mapping(tiered_map))
                  ELSE insert(rest, "tiered",
                           Mapping("config" :> Mapping(insert_all(EmptyMap, removed.m))))
             ELSE rest
    ELSE map

\* map.remove(from), reinserted as tiered.<to> when `tiered` is a mapping
rename_into_tiered(map, from, to) ==
    IF contains_key(map, from)
    THEN LET moved == map[from]
             rest == remove(map, from)
         IN  IF has_mapping(rest, "tiered")
             THEN insert(rest, "tiered", Mapping(insert(rest["tiered"].m, to, moved)))
             ELSE rest
    ELSE map

\* tieredStorageHostPath -> tiered.hostPath
rename_tiered_host_path(map) ==
    rename_into_tiered(map, "tieredStorageHostPath", "hostPath")

\* tieredStoragePersistentVolume -> tiered.persistentVolume
rename_tiered_persistent_volume(map) ==
    rename_into_tiered(map, "tieredStoragePersistentVolume", "persistentVolume")

\* if let Some(v) = map.remove(from) { map.insert(to, v) }
rename_key(map, from, to) ==
    IF contains_key(map, from) THEN insert(remove(map, from), to, map[from]) ELSE map

\* enterprise entry or_insert_with(empty mapping), then insert(key, val) into it
insert_into_enterprise(map, key, val) ==
    LET with_entry == or_insert(map, "enterprise", Mapping(EmptyMap))
    IN  IF is_mapping(with_entry["enterprise"])
        THEN insert(with_entry, "enterprise",
                 Mapping(insert(with_entry["enterprise"].m, key, val)))
        ELSE with_entry

\* faulty variant: the reference moves below enterprise with its keys as they were
rename_license_secret_ref_keep_names(map) ==
    IF contains_key(map, "license_secret_ref")
    THEN LET removed == map["license_secret_ref"]
             rest == remove(map, "license_secret_ref")
         IN  IF is_mapping(removed)
             THEN insert_into_enterprise(rest, "licenseSecretRef", removed)
             ELSE rest
    ELSE map

\* license_secret_ref{secret_name, secret_key} -> enterprise.licenseSecretRef{name, key}
rename_license_secret_ref(map) ==
    IF contains_key(map, "license_secret_ref")
    THEN LET removed == map["license_secret_ref"]
             rest == remove(map, "license_secret_ref")
         IN  IF is_mapping(removed)
             THEN LET license_secret_ref_map ==
                          rename_key(rename_key(removed.m, "secret_name", "name"),
                                     "secret_key", "key")
                  IN  insert_into_enterprise(rest, "licenseSecretRef",
                          Mapping(license_secret_ref_map))
             ELSE rest
    ELSE map

\* faulty variant: the key keeps its old name below enterprise
rename_license_key_same_name(map) ==
    IF contains_key(map, "license_key")
    THEN insert_into_enterprise(remove(map, "license_key"), "license_key",
             map["license_key"])
    ELSE map

\* license_key -> enterprise.license
rename_license_key(map) ==
    IF contains_key(map, "license_key")
    THEN insert_into_enterprise(remove(map, "license_key"), "license", map["license_key"])
    ELSE map

RECURSIVE rename_nested_keys(_)
rename_nested_keys(val) ==
    IF is_mapping(val)
    THEN LET visited == [key \in DOMAIN val.m |-> rename_nested_keys(val.m[key])]
         IN  Mapping(
               rename_license_key(
               rename_license_secret_ref(
               rename_tiered_persistent_volume(
               rename_tiered_host_path(
               rename_tiered_config(
               rename_resources(visited)))))))
    ELSE val

(***************************************************************************)
(* map_statefulset_to_podtemplate (main.rs)                                *)
(***************************************************************************)
\* the labelSelector the pass synthesizes
label_selector ==
    Mapping("matchLabels" :>
        Mapping(("app.kubernetes.io/name" :> Str("redpanda"))
             @@ ("app.kubernetes.io/component" :> Str("redpanda-statefulset"))))

\* Some(v.clone()) unless v is an empty mapping
some_unless_empty_mapping(map, key) ==
    IF contains_key(map, key) /\ ~is_empty_mapping(map[key]) THEN map[key] ELSE None

\* Some(v.clone()) unless v is an empty sequence
some_unless_empty_sequence(map, key) ==
    IF contains_key(map, key) /\ ~is_empty_sequence(map[key]) THEN map[key] ELSE None

\* statefulset.podAntiAffinity{topologyKey} in the standard Kubernetes format
convert_pod_anti_affinity(statefulset_map) ==
    LET anti_aff == some_unless_empty_mapping(statefulset_map, "podAntiAffinity")
    IN  IF is_some(anti_aff) /\ is_mapping(anti_aff)
           /\ contains_key(anti_aff.m, "topologyKey")
        THEN Mapping("requiredDuringSchedulingIgnoredDuringExecution" :>
                 Sequence(<<Mapping(("topologyKey" :> anti_aff.m["topologyKey"])
                                 @@ ("labelSelector" :> label_selector))>>))
        ELSE None

\* spec.affinity or_insert_with(empty mapping), then insert(key, v) into it
insert_affinity(spec_map, key, opt) ==
    IF is_some(opt)
    THEN LET with_entry == or_insert(spec_map, "affinity", Mapping(EmptyMap))
         IN  IF is_mapping(with_entry["affinity"])
             THEN insert(with_entry, "affinity",
                      Mapping(insert(with_entry["affinity"].m, key, opt)))
             ELSE with_entry
    ELSE spec_map

\* every mapping constraint gets a labelSelector unless it has one
with_label_selectors(tsc) ==
    IF is_sequence(tsc)
    THEN Sequence([i \in 1..Len(tsc.s) |->
            IF is_mapping(tsc.s[i])
            THEN Mapping(or_insert(tsc.s[i].m, "labelSelector", label_selector))
            ELSE tsc.s[i]])
    ELSE tsc

\* faulty variant: a root-level value overrides the statefulset's
spec_with_migrated_root_wins(spec_map, root, sts) ==
    LET s1 == insert_some(spec_map, "nodeSelector", sts.node_selector)
        s2 == insert_some(s1, "tolerations", sts.tolerations)
        s3 == insert_some(s2, "nodeSelector", root.node_selector)
        s4 == insert_some(s3, "tolerations", root.tolerations)
        s5 == insert_some(s4, "affinity", root.affinity)
    IN  s5

\* the writes into podTemplate.spec, in the order of the code
spec_with_migrated(spec_map, root, sts) ==
    LET s1 == or_insert_some(spec_map, "nodeSelector", root.node_selector)
        s2 == or_insert_some(s1, "tolerations", root.tolerations)
        s3 == or_insert_some(s2, "affinity", root.affinity)
        s4 == insert_some(s3, "nodeSelector", sts.node_selector)
        s5 == insert_some(s4, "tolerations", sts.tolerations)
        s6 == insert_affinity(s5, "podAffinity", sts.pod_affinity)
        s7 == insert_affinity(s6, "podAntiAffinity", sts.pod_anti_affinity)
        s8 == insert_affinity(s7, "nodeAffinity", sts.node_affinity)
        s9 == insert_some(s8, "securityContext", sts.security_context)
        s10 == insert_some(s9, "priorityClassName", sts.priority_class_name)
        s11 == IF is_some(sts.topology_spread_constraints)
               THEN insert(s10, "topologySpreadConstraints",
                        with_label_selectors(sts.topology_spread_constraints))
               ELSE s10
        s12 == insert_some(s11, "terminationGracePeriodSeconds",
                   sts.termination_grace_period)
    IN  s12

\* statefulset.annotations -> statefulset.podTemplate.annotations
migrate_statefulset_annotations(map, ann) ==
    IF is_some(ann) /\ has_mapping(map, "statefulset")
    THEN LET statefulset_map ==
                 or_insert(map["statefulset"].m, "podTemplate", Mapping(EmptyMap))
             pod_template == statefulset_map["podTemplate"]
         IN  IF is_mapping(pod_template)
             THEN LET pod_template_map ==
                          IF has_mapping(pod_template.m, "annotations")
                          THEN IF is_mapping(ann)
                               THEN insert(pod_template.m, "annotations",
                                       Mapping(or_insert_all(
                                           pod_template.m["annotations"].m, ann.m)))
                               ELSE pod_template.m
                          ELSE insert(pod_template.m, "annotations", ann)
                  IN  insert(map, "statefulset",
                          Mapping(insert(statefulset_map, "podTemplate",
                              Mapping(pod_template_map))))
             ELSE insert(map, "statefulset", Mapping(statefulset_map))
    ELSE map

map_statefulset_to_podtemplate(val) ==
    IF is_mapping(val)
    THEN LET map == val.m
             root == [node_selector |-> some_unless_empty_mapping(map, "nodeSelector"),
                      tolerations |-> some_unless_empty_sequence(map, "tolerations"),
                      affinity |-> some_unless_empty_mapping(map, "affinity")]
             has_sts == has_mapping(map, "statefulset")
             sm == IF has_sts THEN map["statefulset"].m ELSE EmptyMap
             sts == [node_selector |-> some_unless_empty_mapping(sm, "nodeSelector"),
                     tolerations |-> some_unless_empty_sequence(sm, "tolerations"),
                     pod_affinity |-> some_unless_empty_mapping(sm, "podAffinity"),
                     pod_anti_affinity |-> convert_pod_anti_affinity(sm),
                     node_affinity |-> some_unless_empty_mapping(sm, "nodeAffinity"),
                     security_context |-> get(sm, "securityContext"),
                     priority_class_name |-> get(sm, "priorityClassName"),
                     topology_spread_constraints |-> get(sm, "topologySpreadConstraints"),
                     termination_grace_period |-> get(sm, "terminationGracePeriodSeconds")]
             statefulset_annotations == some_unless_empty_mapping(sm, "annotations")
             any_some == (\E f \in DOMAIN root : is_some(root[f]))
                         \/ (\E f \in DOMAIN sts : is_some(sts[f]))
             migrated ==
                 IF any_some
                 THEN LET with_pt == or_insert(map, "podTemplate", Mapping(EmptyMap))
                          pt == with_pt["podTemplate"]
                      IN  IF is_mapping(pt)
                          THEN LET pt_map == or_insert(pt.m, "spec", Mapping(EmptyMap))
                                   spec == pt_map["spec"]
                               IN  insert(with_pt, "podTemplate",
                                     Mapping(
                                       IF is_mapping(spec)
                                       THEN insert(pt_map, "spec",
                                            Mapping(spec_with_migrated(spec.m, root, sts)))
                                       ELSE pt_map))
                          ELSE with_pt
                 ELSE map
         IN  Mapping(migrate_statefulset_annotations(migrated, statefulset_annotations))
    ELSE val

(***************************************************************************)
(* migrate_external_config (main.rs)                                       *)
(***************************************************************************)
\* faulty variant: an existing external.domain is kept
migrate_external_config_keep(val) ==
    IF is_mapping(val) /\ has_mapping(val.m, "external")
       /\ has_mapping(val.m["external"].m, "service")
       /\ contains_key(val.m["external"].m["service"].m, "domain")
    THEN Mapping(insert(val.m, "external",
             Mapping(or_insert(val.m["external"].m, "domain",
                 val.m["external"].m["service"].m["domain"]))))
    ELSE val

migrate_external_config(val) ==
    IF is_mapping(val) /\ has_mapping(val.m, "external")
       /\ has_mapping(val.m["external"].m, "service")
       /\ contains_key(val.m["external"].m["service"].m, "domain")
    THEN LET external_map == val.m["external"].m
             domain_value == external_map["service"].m["domain"]
         IN  Mapping(insert(val.m, "external",
                 Mapping(insert(external_map, "domain", domain_value))))
    ELSE val

(***************************************************************************)
(* migrate_console_v2_to_v3 (main.rs)                                      *)
(***************************************************************************)
\* map.get(key).cloned().unwrap_or(default)
get_or(map, key, default) == IF contains_key(map, key) THEN map[key] ELSE default

\* username/password wrapped in authentication.basic when either is present
with_basic_authentication(v3, v2) ==
    IF contains_key(v2, "username") \/ contains_key(v2, "password")
    THEN insert(v3, "authentication",
             Mapping("basic" :>
                 Mapping(("username" :> get_or(v2, "username", Str("")))
                      @@ ("password" :> get_or(v2, "password", Str(""))))))
    ELSE v3

\* {enabled, urls, authentication?, tls?} of schemaRegistry and of adminApi
endpoint_v3(v2) ==
    LET base == ("enabled" :> get_or(v2, "enabled", Bool(FALSE)))
             @@ ("urls" :> get_or(v2, "urls", Sequence(<<>>)))
    IN  insert_some(with_basic_authentication(base, v2), "tls", get(v2, "tls"))

console_sasl_v3(sasl_v2) ==
    LET base == ("enabled" :> get_or(sasl_v2, "enabled", Bool(FALSE)))
             @@ ("mechanism" :> get_or(sasl_v2, "mechanism", Str("SCRAM-SHA-256")))
    IN  insert_some(insert_some(base, "username", get(sasl_v2, "username")),
                    "password", get(sasl_v2, "password"))

\* the v3 config built from console.console.config
console_v3_config(v2_config) ==
    IF is_mapping(v2_config)
    THEN LET v2_map == v2_config.m
             has_kafka == has_mapping(v2_map, "kafka")
             kafka_v2 == IF has_kafka THEN v2_map["kafka"].m ELSE EmptyMap
             kafka_basic ==
                 insert_some(insert_some(EmptyMap, "brokers", get(kafka_v2, "brokers")),
                             "tls", get(kafka_v2, "tls"))
             kafka_v3 ==
                 IF has_mapping(kafka_v2, "sasl")
                 THEN insert(kafka_basic, "sasl",
                          Mapping(console_sasl_v3(kafka_v2["sasl"].m)))
                 ELSE kafka_basic
             c1 == IF has_mapping(kafka_v2, "schemaRegistry")
                   THEN insert(EmptyMap, "schemaRegistry",
                            Mapping(endpoint_v3(kafka_v2["schemaRegistry"].m)))
                   ELSE EmptyMap
             c2 == IF has_kafka /\ DOMAIN kafka_v3 # {}
                   THEN insert(c1, "kafka", Mapping(kafka_v3))
                   ELSE c1
             c3 == IF has_mapping(v2_map, "redpanda")
                      /\ has_mapping(v2_map["redpanda"].m, "adminApi")
                   THEN insert(c2, "redpanda",
                            Mapping("adminApi" :>
                                Mapping(endpoint_v3(v2_map["redpanda"].m["adminApi"].m))))
                   ELSE c2
         IN  c3
    ELSE EmptyMap

migrate_console_v2_to_v3(val) ==
    IF is_mapping(val) /\ has_mapping(val.m, "console")
       /\ has_mapping(val.m["console"].m, "console")
       /\ contains_key(val.m["console"].m["console"].m, "config")
    THEN LET console_map == val.m["console"].m
             v3_config == console_v3_config(console_map["console"].m["config"])
         IN  IF DOMAIN v3_config # {}
             THEN Mapping(insert(val.m, "console",
                      Mapping(remove(insert(console_map, "config", Mapping(v3_config)),
                                     "console"))))
             ELSE val
    ELSE val

(***************************************************************************)
(* clean_deprecated_fields (main.rs)                                       *)
(***************************************************************************)
root_deprecated ==
    {"COMPUTED VALUES", "tolerations", "nodeSelector", "affinity", "post_upgrade_job",
     "imagePullSecrets", "post_install_job", "connectors", "podManagementPolicy"}

statefulset_deprecated ==
    {"securityContext", "tolerations", "nodeSelector", "priorityClassName",
     "startupProbe", "livenessProbe", "readinessProbe", "annotations",
     "topologySpreadConstraints", "extraVolumes", "extraVolumeMounts", "podAffinity",
     "podAntiAffinity", "nodeAffinity", "terminationGracePeriodSeconds",
     "podManagementPolicy"}

remove_mounts_and_resources(m) == remove_keys(m, {"extraVolumeMounts", "resources"})

clean_init_containers(init_map) ==
    update_mapping(
        update_mapping(
            remove_keys(init_map,
                {"tuning", "extraInitContainers", "setTieredStorageCacheDirOwnership"}),
            "configurator", remove_mounts_and_resources),
        "setDataDirOwnership", remove_mounts_and_resources)

clean_config_watcher(m) ==
    remove_keys(m, {"extraVolumeMounts", "resources", "securityContext"})

clean_side_cars(sidecars_map) ==
    update_mapping(sidecars_map, "configWatcher", clean_config_watcher)

clean_statefulset(statefulset_map) ==
    update_mapping(
        update_mapping(remove_keys(statefulset_map, statefulset_deprecated),
                       "initContainers", clean_init_containers),
        "sideCars", clean_side_cars)

remove_pull_policy(image_map) == remove(image_map, "pullPolicy")

remove_kafka_endpoint(m) == remove(m, "kafkaEndpoint")

clean_listeners(listeners_map) ==
    update_mapping(update_mapping(listeners_map, "http", remove_kafka_endpoint),
                   "schemaRegistry", remove_kafka_endpoint)

remove_domain(service_map) == remove(service_map, "domain")

clean_external(external_map) == update_mapping(external_map, "service", remove_domain)

\* an empty enterprise.licenseSecretRef is removed
clean_enterprise(enterprise_map) ==
    IF has_mapping(enterprise_map, "licenseSecretRef")
       /\ is_empty_mapping(enterprise_map["licenseSecretRef"])
    THEN remove(enterprise_map, "licenseSecretRef")
    ELSE enterprise_map

\* faulty variant: the statefulset's migrated fields are left in place
clean_deprecated_fields_keep_statefulset(val) ==
    IF is_mapping(val)
    THEN Mapping(update_mapping(remove_keys(val.m, root_deprecated),
                                "external", clean_external))
    ELSE val

clean_deprecated_fields(val) ==
    IF is_mapping(val)
    THEN Mapping(
           update_mapping(
           update_mapping(
           update_mapping(
           update_mapping(
           update_mapping(remove_keys(val.m, root_deprecated),
               "image", remove_pull_policy),
               "statefulset", clean_statefulset),
               "listeners", clean_listeners),
               "external", clean_external),
               "enterprise", clean_enterprise))
    ELSE val

(***************************************************************************)
(* clean_empty_cloud_storage, clean_old_resource_format,                   *)
(* filter_console_null_values, validate_and_fix_tiered_storage (main.rs)   *)
(***************************************************************************)
keys_to_remove ==
    {"cloud_storage_access_key", "cloud_storage_api_endpoint",
     "cloud_storage_azure_container", "cloud_storage_azure_shared_key",
     "cloud_storage_azure_storage_account", "cloud_storage_bucket",
     "cloud_storage_cache_size", "cloud_storage_credentials_source",
     "cloud_storage_enable_remote_read", "cloud_storage_enable_remote_write",
     "cloud_storage_region", "cloud_storage_secret_key"}

clean_cloud_config(config_map) ==
    IF ~bool_or_false(config_map, "cloud_storage_enabled")
    THEN remove_keys(config_map, keys_to_remove)
    ELSE config_map

clean_cloud_tiered(tiered_map) ==
    LET cleaned == update_mapping(tiered_map, "config", clean_cloud_config)
    IN  IF has_mapping(cleaned, "config")
           /\ ~bool_or_false(cleaned["config"].m, "cloud_storage_enabled")
        THEN remove(cleaned, "credentialsSecretRef")
        ELSE cleaned

clean_cloud_storage_map(storage_map) ==
    update_mapping(storage_map, "tiered", clean_cloud_tiered)

\* faulty variant: the cloud storage keys are removed whether or not storage is enabled
clean_empty_cloud_storage_always(val) ==
    IF is_mapping(val) /\ has_mapping(val.m, "storage")
       /\ has_mapping(val.m["storage"].m, "tiered")
       /\ has_mapping(val.m["storage"].m["tiered"].m, "config")
    THEN LET storage_map == val.m["storage"].m
             tiered_map == storage_map["tiered"].m
         IN  Mapping(insert(val.m, "storage",
               Mapping(insert(storage_map, "tiered",
                 Mapping(remove(
                   insert(tiered_map, "config",
                     Mapping(remove_keys(tiered_map["config"].m, keys_to_remove))),
                   "credentialsSecretRef"))))))
    ELSE val

clean_empty_cloud_storage(val) ==
    IF is_mapping(val)
    THEN Mapping(update_mapping(val.m, "storage", clean_cloud_storage_map))
    ELSE val

clean_old_resources(resources_map) ==
    LET has_new_format == contains_key(resources_map, "requests")
                          /\ contains_key(resources_map, "limits")
        has_old_format == contains_key(resources_map, "cpu")
                          \/ contains_key(resources_map, "memory")
    IN  IF has_new_format /\ has_old_format
        THEN remove_keys(resources_map, {"cpu", "memory"})
        ELSE resources_map

clean_old_resource_format(val) ==
    IF is_mapping(val)
    THEN Mapping(update_mapping(val.m, "resources", clean_old_resources))
    ELSE val

\* if let Some(Value::Null) = m.get(key) { m.remove(key) }
remove_if_null(m, key) ==
    IF contains_key(m, key) /\ m[key] = Null THEN remove(m, key) ELSE m

filter_ingress(ingress_map) == remove_if_null(ingress_map, "className")

filter_service(service_map) == remove_if_null(service_map, "targetPort")

filter_secret(secret_map) == remove_keys(secret_map, {"enterprise", "login"})

filter_console(console_map) ==
    remove(update_mapping(update_mapping(update_mapping(console_map,
               "ingress", filter_ingress),
               "service", filter_service),
               "secret", filter_secret),
           "enterprise")

filter_console_null_values(val) ==
    IF is_mapping(val)
    THEN Mapping(update_mapping(val.m, "console", filter_console))
    ELSE val

\* the outcome the function prints; it writes nothing into the tree
tiered_storage_verdict(config_map) ==
    LET has(key) == contains_key(config_map, key)
        has_access_key == has("cloud_storage_access_key")
        has_secret_key == has("cloud_storage_secret_key")
        has_creds_source == has("cloud_storage_credentials_source")
    IN  IF ~bool_or_false(config_map, "cloud_storage_enabled") THEN "info_disabled"
        ELSE IF ~has("cloud_storage_bucket") \/ ~has("cloud_storage_region")
             THEN "info_no_bucket_region"
        ELSE IF ~has_access_key /\ ~has_creds_source THEN "warning_no_credentials"
        ELSE IF has_access_key /\ ~has_secret_key THEN "warning_secret_key_missing"
        ELSE "validated"

\* faulty variant: a configuration without credentials is repaired in place
validate_and_fix_tiered_storage_repairing(val) ==
    IF is_mapping(val) /\ has_mapping(val.m, "storage")
       /\ has_mapping(val.m["storage"].m, "tiered")
       /\ has_mapping(val.m["storage"].m["tiered"].m, "config")
    THEN LET config_map == val.m["storage"].m["tiered"].m["config"].m
             verdict == tiered_storage_verdict(config_map)
             repaired == insert(config_map, "cloud_storage_credentials_source",
                                Str("config_file"))
         IN  IF verdict = "warning_no_credentials"
             THEN <<Mapping(insert(val.m, "storage",
                      Mapping(insert(val.m["storage"].m, "tiered",
                          Mapping(insert(val.m["storage"].m["tiered"].m, "config",
                              Mapping(repaired))))))), verdict>>
             ELSE <<val, verdict>>
    ELSE <<val, "none">>

\* <<tree after the call, what was printed>>
validate_and_fix_tiered_storage(val) ==
    IF is_mapping(val) /\ has_mapping(val.m, "storage")
       /\ has_mapping(val.m["storage"].m, "tiered")
       /\ has_mapping(val.m["storage"].m["tiered"].m, "config")
    THEN <<val, tiered_storage_verdict(val.m["storage"].m["tiered"].m["config"].m)>>
    ELSE <<val, "none">>

(***************************************************************************)
(* validate_version_format, pin_versions (main.rs)                         *)
(***************************************************************************)
Digits == {"0", "1", "2", "3", "4", "5", "6", "7", "8", "9"}

Letters ==
    {"a", "b", "c", "d", "e", "f", "g", "h", "i", "j", "k", "l", "m", "n", "o", "p",
     "q", "r", "s", "t", "u", "v", "w", "x", "y", "z", "A", "B", "C", "D", "E", "F",
     "G", "H", "I", "J", "K", "L", "M", "N", "O", "P", "Q", "R", "S", "T", "U", "V",
     "W", "X", "Y", "Z"}

\* the characters of the version strings of the model
VersionChars ==
       ("v23.2.24" :> <<"v", "2", "3", ".", "2", ".", "2", "4">>)
    @@ ("v25.1.1" :> <<"v", "2", "5", ".", "1", ".", "1">>)
    @@ ("v3.3.2" :> <<"v", "3", ".", "3", ".", "2">>)
    @@ ("v3.1.0-rc.1" :> <<"v", "3", ".", "1", ".", "0", "-", "r", "c", ".", "1">>)
    @@ ("v3.1.0-" :> <<"v", "3", ".", "1", ".", "0", "-">>)
    @@ ("v3.1.0+b" :> <<"v", "3", ".", "1", ".", "0", "+", "b">>)
    @@ ("3.3.2" :> <<"3", ".", "3", ".", "2">>)
    @@ ("v3.3" :> <<"v", "3", ".", "3">>)
    @@ ("v3..2" :> <<"v", "3", ".", ".", "2">>)
    @@ ("latest" :> <<"l", "a", "t", "e", "s", "t">>)
    @@ ("" :> <<>>)

\* index of the first character at or after i that is no digit
RECURSIVE skip_digits(_, _)
skip_digits(chars, i) ==
    IF i <= Len(chars) /\ chars[i] \in Digits THEN skip_digits(chars, i + 1) ELSE i

\* ^v\d+\.\d+\.\d+(-[a-zA-Z0-9.-]+)?$
regex_is_match(chars) ==
    LET n == Len(chars)
        a == skip_digits(chars, 2)
        b == skip_digits(chars, a + 1)
        c == skip_digits(chars, b + 1)
    IN  /\ n >= 1 /\ chars[1] = "v"
        /\ a > 2 /\ a <= n /\ chars[a] = "."
        /\ b > a + 1 /\ b <= n /\ chars[b] = "."
        /\ c > b + 1
        /\ \/ c = n + 1
           \/ /\ c < n /\ chars[c] = "-"
              /\ \A i \in (c + 1)..n : chars[i] \in Digits \cup Letters \cup {".", "-"}

\* faulty variant: any string starting with v passes
validate_version_format_lax(version) ==
    Len(VersionChars[version]) >= 1 /\ VersionChars[version][1] = "v"

\* TRUE for Ok(()), FALSE for Err
validate_version_format(version) == regex_is_match(VersionChars[version])

\* val.get(a).and_then(|x| x.get(b)) ... .as_str().filter(|s| !s.is_empty())
non_empty_str_at(val, path) ==
    LET found == IF is_mapping(val) THEN
                     IF Len(path) = 2
                     THEN IF has_mapping(val.m, path[1])
                          THEN get(val.m[path[1]].m, path[2]) ELSE None
                     ELSE IF has_mapping(val.m, path[1])
                             /\ has_mapping(val.m[path[1]].m, path[2])
                          THEN get(val.m[path[1]].m[path[2]].m, path[3]) ELSE None
                 ELSE None
    IN  IF found.k = "str" /\ found.v # "" THEN found ELSE None

\* image entry or_insert_with(empty mapping), then insert("tag", version)
insert_image_tag(map, version) ==
    LET with_entry == or_insert(map, "image", Mapping(EmptyMap))
    IN  IF is_mapping(with_entry["image"])
        THEN insert(with_entry, "image",
                 Mapping(insert(with_entry["image"].m, "tag", Str(version))))
        ELSE with_entry

\* the same below the console entry
insert_console_image_tag(map, version) ==
    LET with_entry == or_insert(map, "console", Mapping(EmptyMap))
    IN  IF is_mapping(with_entry["console"])
        THEN insert(with_entry, "console",
                 Mapping(insert_image_tag(with_entry["console"].m, version)))
        ELSE with_entry

\* faulty variant: a supplied version replaces the tag the tree already has
pin_redpanda_overwrite(val, redpanda_version_arg) ==
    LET current_redpanda == non_empty_str_at(val, <<"image", "tag">>)
    IN  IF is_some(redpanda_version_arg)
        THEN IF validate_version_format(redpanda_version_arg.v)
             THEN [ok |-> TRUE, err |-> "none",
                   val |-> IF is_mapping(val)
                           THEN Mapping(insert_image_tag(val.m, redpanda_version_arg.v))
                           ELSE val]
             ELSE [ok |-> FALSE, val |-> val, err |-> "invalid_format"]
        ELSE IF is_some(current_redpanda)
        THEN [ok |-> validate_version_format(current_redpanda.v), val |-> val,
              err |-> IF validate_version_format(current_redpanda.v)
                      THEN "none" ELSE "invalid_format"]
        ELSE [ok |-> FALSE, val |-> val, err |-> "version_required"]

\* the Redpanda half: [ok, val, err]
pin_redpanda(val, redpanda_version_arg) ==
    LET current_redpanda == non_empty_str_at(val, <<"image", "tag">>)
    IN  IF is_some(current_redpanda)
        THEN [ok |-> validate_version_format(current_redpanda.v), val |-> val,
              err |-> IF validate_version_format(current_redpanda.v)
                      THEN "none" ELSE "invalid_format"]
        ELSE IF is_some(redpanda_version_arg)
        THEN IF validate_version_format(redpanda_version_arg.v)
             THEN [ok |-> TRUE, err |-> "none",
                   val |-> IF is_mapping(val)
                           THEN Mapping(insert_image_tag(val.m, redpanda_version_arg.v))
                           ELSE val]
             ELSE [ok |-> FALSE, val |-> val, err |-> "invalid_format"]
        ELSE [ok |-> FALSE, val |-> val, err |-> "version_required"]

\* faulty variant: the Console half does not look at console.enabled
pin_console_always(val, console_version_arg, fetched) ==
    LET current_console == non_empty_str_at(val, <<"console", "image", "tag">>)
        written(version) ==
            IF is_mapping(val) THEN Mapping(insert_console_image_tag(val.m, version))
            ELSE val
    IN  IF is_some(current_console)
        THEN [ok |-> validate_version_format(current_console.v), val |-> val,
              err |-> IF validate_version_format(current_console.v)
                      THEN "none" ELSE "invalid_format"]
        ELSE IF is_some(console_version_arg)
        THEN IF validate_version_format(console_version_arg.v)
             THEN [ok |-> TRUE, val |-> written(console_version_arg.v), err |-> "none"]
             ELSE [ok |-> FALSE, val |-> val, err |-> "invalid_format"]
        ELSE IF is_some(fetched)
        THEN [ok |-> TRUE, val |-> written(fetched.v), err |-> "none"]
        ELSE [ok |-> TRUE, val |-> val, err |-> "none"]

\* the Console half, on the tree the Redpanda half left: [ok, val, err]
pin_console(val, console_version_arg, fetched) ==
    LET console_enabled ==
            is_mapping(val) /\ has_mapping(val.m, "console")
            /\ bool_or_false(val.m["console"].m, "enabled")
        current_console == non_empty_str_at(val, <<"console", "image", "tag">>)
        written(version) ==
            IF is_mapping(val) THEN Mapping(insert_console_image_tag(val.m, version))
            ELSE val
    IN  IF ~console_enabled THEN [ok |-> TRUE, val |-> val, err |-> "none"]
        ELSE IF is_some(current_console)
        THEN [ok |-> validate_version_format(current_console.v), val |-> val,
              err |-> IF validate_version_format(current_console.v)
                      THEN "none" ELSE "invalid_format"]
        ELSE IF is_some(console_version_arg)
        THEN IF validate_version_format(console_version_arg.v)
             THEN [ok |-> TRUE, val |-> written(console_version_arg.v), err |-> "none"]
             ELSE [ok |-> FALSE, val |-> val, err |-> "invalid_format"]
        ELSE IF is_some(fetched)
        THEN [ok |-> TRUE, val |-> written(fetched.v), err |-> "none"]
        ELSE [ok |-> TRUE, val |-> val, err |-> "none"]

\* [ok |-> the Result is Ok, val |-> the tree when the call returns, err |-> cause];
\* fetched is what fetch_chart_app_version answers (None for Err)
pin_versions(val, redpanda_version_arg, console_version_arg, fetched) ==
    LET redpanda == pin_redpanda(val, redpanda_version_arg)
    IN  IF redpanda.ok
        THEN pin_console(redpanda.val, console_version_arg, fetched)
        ELSE redpanda

(***************************************************************************)
(* Strings that the code splits are sequences of characters                *)
(***************************************************************************)
\* Option::Some
Some(x) == [k |-> "some", v |-> x]

\* Result::Ok / Result::Err
Ok(x) == [ok |-> TRUE, val |-> x, err |-> None]

Err(e) == [ok |-> FALSE, val |-> None, err |-> e]

\* the characters of the mapping keys of the engine's configurations
chars == ("" :> <<>>) @@ ("a" :> <<"a">>) @@ ("b" :> <<"b">>) @@ ("ab" :> <<"a", "b">>)

RECURSIVE split_from(_, _, _, _, _)
split_from(s, sep, i, part, parts) ==
    IF i > Len(s) THEN Append(parts, part)
    ELSE IF s[i] = sep THEN split_from(s, sep, i + 1, <<>>, Append(parts, part))
    ELSE split_from(s, sep, i + 1, Append(part, s[i]), parts)

\* s.split(sep).collect()
split(s, sep) == split_from(s, sep, 1, <<>>, <<>>)

\* map.get(&Value::String(part.to_string()))
get_part(map, part) ==
    LET keys == {key \in DOMAIN map : key \in DOMAIN chars /\ chars[key] = part}
    IN  IF keys = {} THEN None ELSE Some(map[CHOOSE key \in keys : TRUE])

(***************************************************************************)
(* schema_version.rs                                                       *)
(***************************************************************************)
SchemaVersion_new(major, minor, patch) ==
    [major |-> major, minor |-> minor, patch |-> patch]

DigitChar == <<"0", "1", "2", "3", "4", "5", "6", "7", "8", "9">>

RECURSIVE decimal(_)
decimal(n) ==
    IF n < 10 THEN <<DigitChar[n + 1]>>
    ELSE decimal(n \div 10) \o <<DigitChar[(n % 10) + 1]>>

\* Display for SchemaVersion
to_string(version) ==
    decimal(version.major) \o <<".">> \o decimal(version.minor) \o <<".">>
        \o decimal(version.patch)

digit_value(c) == CHOOSE d \in 0..9 : DigitChar[d + 1] = c

RECURSIVE strip_zeros(_)
strip_zeros(digits) ==
    IF Len(digits) > 1 /\ Head(digits) = "0" THEN strip_zeros(Tail(digits)) ELSE digits

\* u32::MAX in decimal
U32MaxDigits == <<"4", "2", "9", "4", "9", "6", "7", "2", "9", "5">>

\* the digits (without leading zeros) are a number above u32::MAX
overflows_u32(digits) ==
    \/ Len(digits) > Len(U32MaxDigits)
    \/ /\ Len(digits) = Len(U32MaxDigits)
       /\ \E i \in 1..Len(digits) :
             /\ \A j \in 1..(i - 1) : digits[j] = U32MaxDigits[j]
             /\ digit_value(digits[i]) > digit_value(U32MaxDigits[i])

RECURSIVE digits_value(_, _)
digits_value(digits, acc) ==
    IF digits = <<>> THEN acc
    ELSE digits_value(Tail(digits), acc * 10 + digit_value(Head(digits)))

\* str::parse::<u32>(): an optional +, then one or more digits, no overflow
parse_u32(part) ==
    LET digits == IF part # <<>> /\ Head(part) = "+" THEN Tail(part) ELSE part
    IN  IF digits = <<>> \/ \E i \in 1..Len(digits) : digits[i] \notin Digits
        THEN None
        ELSE IF overflows_u32(strip_zeros(digits)) THEN None
        ELSE Some(digits_value(strip_zeros(digits), 0))

\* FromStr for SchemaVersion
from_str(s) ==
    LET parts == split(s, ".")
    IN  IF Len(parts) # 3 THEN Err([type |-> "InvalidFormat", message |-> s])
        ELSE IF parse_u32(parts[1]) = None \/ parse_u32(parts[2]) = None
                \/ parse_u32(parts[3]) = None
        THEN Err([type |-> "InvalidFormat", message |-> s])
        ELSE Ok(SchemaVersion_new(parse_u32(parts[1]).v, parse_u32(parts[2]).v,
                                  parse_u32(parts[3]).v))

cmp_u32(a, b) == IF a < b THEN "Less" ELSE IF a > b THEN "Greater" ELSE "Equal"

then_with(ordering, next) == IF ordering = "Equal" THEN next ELSE ordering

\* Ord for SchemaVersion
cmp(self, other) ==
    then_with(then_with(cmp_u32(self.major, other.major),
                        cmp_u32(self.minor, other.minor)),
              cmp_u32(self.patch, other.patch))

(***************************************************************************)
(* validation.rs: ValidationReport                                         *)
(***************************************************************************)
ValidationReport_new ==
    [is_valid |-> TRUE, errors |-> <<>>, warnings |-> <<>>,
     deprecated_fields |-> <<>>, missing_required_fields |-> <<>>]

\* faulty variant: the error is recorded and the report stays as valid as it was
add_error_keeps_valid(report, error) == [report EXCEPT !.errors = Append(@, error)]

add_error(report, error) ==
    [report EXCEPT !.is_valid = FALSE, !.errors = Append(@, error)]

add_warning(report, warning) == [report EXCEPT !.warnings = Append(@, warning)]

has_errors(report) == report.errors # <<>> \/ report.missing_required_fields # <<>>

has_warnings(report) == report.warnings # <<>> \/ report.deprecated_fields # <<>>

ValidationError(field_path, error_type, message, suggested_fix) ==
    [field_path |-> field_path, error_type |-> error_type, message |-> message,
     suggested_fix |-> suggested_fix]

ValidationWarning(field_path, warning_type, message, recommendation) ==
    [field_path |-> field_path, warning_type |-> warning_type, message |-> message,
     recommendation |-> recommendation]

add_deprecated_field(report, field_path) ==
    [report EXCEPT !.deprecated_fields = Append(@, field_path)]

\* faulty variant: the report stays valid
add_missing_required_field_valid(report, field_path) ==
    [report EXCEPT !.missing_required_fields = Append(@, field_path)]

add_missing_required_field(report, field_path) ==
    [report EXCEPT !.is_valid = FALSE, !.missing_required_fields = Append(@, field_path)]

(***************************************************************************)
(* transformation_rule.rs                                                  *)
(***************************************************************************)
DefaultPriority == 100

TransformationRule_new(rule_id, source_path, target_path, transformation_type) ==
    [rule_id |-> rule_id, source_path |-> source_path, target_path |-> target_path,
     transformation_type |-> transformation_type, condition |-> None,
     priority |-> DefaultPriority]

with_condition(rule, condition) == [rule EXCEPT !.condition = Some(condition)]

with_priority(rule, priority) == [rule EXCEPT !.priority = priority]

Condition(field_path, condition_type, expected_value) ==
    [field_path |-> field_path, condition_type |-> condition_type,
     expected_value |-> expected_value]

\* faulty variant: a sequence on the way is entered at its first element
RECURSIVE nested_value_through_sequences(_, _, _)
nested_value_through_sequences(current, parts, i) ==
    IF i > Len(parts) THEN Some(current)
    ELSE IF is_mapping(current)
         THEN LET found == get_part(current.m, parts[i])
              IN  IF found = None THEN None
                  ELSE nested_value_through_sequences(found.v, parts, i + 1)
         ELSE IF is_sequence(current) /\ current.s # <<>>
         THEN nested_value_through_sequences(current.s[1], parts, i)
         ELSE None

RECURSIVE nested_value_from(_, _, _)
nested_value_from(current, parts, i) ==
    IF i > Len(parts) THEN Some(current)
    ELSE IF is_mapping(current)
         THEN LET found == get_part(current.m, parts[i])
              IN  IF found = None THEN None ELSE nested_value_from(found.v, parts, i + 1)
         ELSE None

get_nested_value(value, path) == nested_value_from(value, split(path, "."), 1)

condition_satisfied(rule, config) ==
    IF rule.condition = None THEN TRUE
    ELSE LET condition == rule.condition.v
             field_value == get_nested_value(config, condition.field_path)
             both == is_some(field_value) /\ is_some(condition.expected_value)
         IN  CASE condition.condition_type = "FieldExists" -> is_some(field_value)
               [] condition.condition_type = "FieldAbsent" -> ~is_some(field_value)
               [] condition.condition_type = "ValueEquals" ->
                      both /\ field_value.v = condition.expected_value.v
               [] condition.condition_type = "ValueNotEquals" ->
                      both => field_value.v # condition.expected_value.v

(***************************************************************************)
(* schema_registry.rs                                                      *)
(***************************************************************************)
EmptyHashMap == [key \in {} |-> None]

SchemaRegistry_new ==
    [schemas |-> EmptyHashMap, transformation_rules |-> EmptyHashMap,
     migration_paths |-> EmptyHashMap]

SchemaDefinition(version, required_fields, deprecated_fields) ==
    [version |-> version, required_fields |-> required_fields,
     deprecated_fields |-> deprecated_fields]

add_schema(registry, schema) ==
    [registry EXCEPT !.schemas = insert(@, schema.version, schema)]

\* the error of the first offending rule, None when every rule passes
RECURSIVE validate_rules_from(_, _)
validate_rules_from(rules, i) ==
    IF i > Len(rules) THEN None
    ELSE IF rules[i].rule_id = ""
         THEN Some([type |-> "RuleValidationFailed", message |-> <<"Rule ID cannot be empty">>])
    ELSE IF rules[i].source_path = <<>>
         THEN Some([type |-> "RuleValidationFailed",
                    message |-> <<"Source path cannot be empty for rule ", rules[i].rule_id>>])
    ELSE validate_rules_from(rules, i + 1)

validate_rules(rules) == validate_rules_from(rules, 1)

\* faulty variant: the rules are stored without validation
add_transformation_rules_unchecked(registry, source, target, rules) ==
    Ok([registry EXCEPT !.transformation_rules = insert(@, <<source, target>>, rules)])

\* [ok, val, err] with val the registry afterwards
add_transformation_rules(registry, source, target, rules) ==
    LET invalid == validate_rules(rules)
    IN  IF is_some(invalid) THEN Err(invalid.v)
        ELSE Ok([registry EXCEPT !.transformation_rules = insert(@, <<source, target>>, rules)])

get_transformation_rules(registry, source, target) ==
    IF contains_key(registry.transformation_rules, <<source, target>>)
    THEN Ok(registry.transformation_rules[<<source, target>>])
    ELSE Err([type |-> "NoTransformationRules",
              message |-> <<to_string(source), to_string(target)>>])

get_latest_version(registry) ==
    LET keys == DOMAIN registry.schemas
    IN  IF keys = {} THEN None
        ELSE Some(CHOOSE v \in keys : \A w \in keys : cmp(w, v) # "Greater")

RECURSIVE field_exists_from(_, _, _)
field_exists_from(current, parts, i) ==
    IF i > Len(parts) THEN TRUE
    ELSE IF is_mapping(current)
         THEN LET found == get_part(current.m, parts[i])
              IN  IF is_some(found) THEN field_exists_from(found.v, parts, i + 1) ELSE FALSE
         ELSE FALSE

\* faulty variant: a field that holds null does not exist
field_exists_non_null(config, field_path) ==
    LET found == nested_value_from(config, split(field_path, "."), 1)
    IN  is_some(found) /\ found.v # Null

field_exists(config, field_path) == field_exists_from(config, split(field_path, "."), 1)

RECURSIVE check_required_fields(_, _, _, _)
check_required_fields(report, config, required_fields, i) ==
    IF i > Len(required_fields) THEN report
    ELSE check_required_fields(
             IF ~field_exists(config, required_fields[i])
             THEN add_missing_required_field(report, required_fields[i])
             ELSE report,
             config, required_fields, i + 1)

RECURSIVE check_deprecated_fields(_, _, _, _)
check_deprecated_fields(report, config, deprecated_fields, i) ==
    IF i > Len(deprecated_fields) THEN report
    ELSE check_deprecated_fields(
             IF field_exists(config, deprecated_fields[i])
             THEN add_deprecated_field(report, deprecated_fields[i])
             ELSE report,
             config, deprecated_fields, i + 1)

\* faulty variant: a version without a schema gets an empty report
validate_configuration_lenient(registry, config, version) ==
    IF ~contains_key(registry.schemas, version) THEN Ok(ValidationReport_new)
    ELSE Ok(check_deprecated_fields(
                check_required_fields(ValidationReport_new, config,
                                      registry.schemas[version].required_fields, 1),
                config, registry.schemas[version].deprecated_fields, 1))

validate_configuration(registry, config, version) ==
    IF ~contains_key(registry.schemas, version)
    THEN Err([type |-> "SchemaNotFound", message |-> <<to_string(version)>>])
    ELSE LET schema == registry.schemas[version]
         IN  Ok(check_deprecated_fields(
                    check_required_fields(ValidationReport_new, config,
                                          schema.required_fields, 1),
                    config, schema.deprecated_fields, 1))

add_migration_path(registry, source, path) ==
    [registry EXCEPT !.migration_paths = insert(@, source, path)]

\* path.iter().position(|v| v == target)
position(path, target) ==
    LET hits == {i \in 1..Len(path) : path[i] = target}
    IN  IF hits = {} THEN None ELSE Some(CHOOSE i \in hits : \A j \in hits : i <= j)

\* faulty variant: the registered path is returned whole, not cut at the target
get_migration_path_whole(registry, source, target) ==
    IF source = target THEN Some(<<target>>)
    ELSE IF contains_key(registry.migration_paths, source)
            /\ is_some(position(registry.migration_paths[source], target))
         THEN Some(registry.migration_paths[source])
         ELSE Some(<<target>>)

get_migration_path(registry, source, target) ==
    IF source = target THEN Some(<<target>>)
    ELSE IF contains_key(registry.migration_paths, source)
            /\ is_some(position(registry.migration_paths[source], target))
         THEN Some(SubSeq(registry.migration_paths[source], 1,
                          position(registry.migration_paths[source], target).v))
         ELSE Some(<<target>>)

(***************************************************************************)
(* transformation_engine.rs                                                *)
(***************************************************************************)
\* From<RegistryError> for TransformationError
RegistryError(err) == [type |-> "RegistryError", message |-> <<err.type>> \o err.message]

TransformationWarning(message, field_path, warning_type) ==
    [message |-> message, field_path |-> field_path, warning_type |-> warning_type]

TransformationResult(transformed_config, applied, report, warns, source, target) ==
    [transformed_config |-> transformed_config, applied_transformations |-> applied,
     validation_report |-> report, warnings |-> warns, source_version |-> source,
     target_version |-> target]

\* faulty variant: every configuration is taken to be at version 1.9.9
detect_version_assumed(config) == Ok(Some(SchemaVersion_new(1, 9, 9)))

detect_version(config) == Ok(None)

resolve_migration_path(source, target) ==
    IF source = target THEN Ok(<<target>>) ELSE Ok(<<target>>)

\* the placeholder: no transformation, the configuration as it was
apply_single_rule(config, rule) == [ok |-> TRUE, val |-> None, err |-> None, config |-> config]

\* faulty variant: the position behind the rules of a strictly higher priority only
RECURSIVE sorted_insert_unstable(_, _)
sorted_insert_unstable(sorted, rule) ==
    IF sorted = <<>> THEN <<rule>>
    ELSE IF Head(sorted).priority > rule.priority
         THEN <<Head(sorted)>> \o sorted_insert_unstable(Tail(sorted), rule)
         ELSE <<rule>> \o sorted

\* the position a rule takes in a list already sorted by descending priority:
\* behind every rule of the same or a higher priority (the sort is stable)
RECURSIVE sorted_insert(_, _)
sorted_insert(sorted, rule) ==
    IF sorted = <<>> THEN <<rule>>
    ELSE IF Head(sorted).priority >= rule.priority
         THEN <<Head(sorted)>> \o sorted_insert(Tail(sorted), rule)
         ELSE <<rule>> \o sorted

RECURSIVE sort_from(_, _, _)
sort_from(rules, i, sorted) ==
    IF i > Len(rules) THEN sorted
    ELSE sort_from(rules, i + 1, sorted_insert(sorted, rules[i]))

\* sorted_rules.sort_by(|a, b| b.priority.cmp(&a.priority))
sort_by_priority(rules) == sort_from(rules, 1, <<>>)

\* one turn of the loop over the sorted rules
apply_rule(acc, rule) ==
    IF ~acc.ok \/ ~condition_satisfied(rule, acc.config) THEN acc
    ELSE LET outcome == apply_single_rule(acc.config, rule)
         IN  IF ~outcome.ok
             THEN [acc EXCEPT !.ok = FALSE,
                              !.err = [type |-> "RuleApplicationFailed",
                                       message |-> <<rule.rule_id, outcome.err>>]]
             ELSE IF is_some(outcome.val)
             THEN [acc EXCEPT !.config = outcome.config,
                              !.applied = Append(@, outcome.val.v)]
             ELSE [acc EXCEPT !.config = outcome.config,
                              !.warnings = Append(@,
                                  TransformationWarning(
                                      <<"Rule ", rule.rule_id, " was skipped">>,
                                      Some(rule.source_path), "ConditionalSkipped"))]

RECURSIVE apply_rules_from(_, _, _)
apply_rules_from(acc, sorted_rules, i) ==
    IF i > Len(sorted_rules) THEN acc
    ELSE apply_rules_from(apply_rule(acc, sorted_rules[i]), sorted_rules, i + 1)

\* [ok, config, applied, warnings, err]
apply_transformation_rules(config, rules) ==
    apply_rules_from([ok |-> TRUE, config |-> config, applied |-> <<>>,
                      warnings |-> <<>>, err |-> None],
                     sort_by_priority(rules), 1)

\* for target in migration_path { .. }: [ok, config, applied, warnings, err]
RECURSIVE apply_along_path(_, _, _, _, _)
apply_along_path(registry, acc, current_version, migration_path, i) ==
    IF i > Len(migration_path) \/ ~acc.ok THEN acc
    ELSE IF is_some(current_version)
    THEN LET rules == get_transformation_rules(registry, current_version.v, migration_path[i])
         IN  IF ~rules.ok
             THEN [acc EXCEPT !.ok = FALSE, !.err = RegistryError(rules.err)]
             ELSE LET done == apply_transformation_rules(acc.config, rules.val)
                  IN  apply_along_path(registry,
                          [ok |-> done.ok, config |-> done.config,
                           applied |-> acc.applied \o done.applied,
                           warnings |-> acc.warnings \o done.warnings, err |-> done.err],
                          Some(migration_path[i]), migration_path, i + 1)
    ELSE apply_along_path(registry, acc, Some(migration_path[i]), migration_path, i + 1)

(***************************************************************************)
(* Input trees: overlays of at most MaxParts parts                         *)
(***************************************************************************)
MaxParts == 2

\* deep union of two input parts, the first part winning a clash
RECURSIVE Overlay(_, _)
Overlay(a, b) ==
    IF is_mapping(a) /\ is_mapping(b)
    THEN Mapping([key \in (DOMAIN a.m) \cup (DOMAIN b.m) |->
            IF ~contains_key(b.m, key) THEN a.m[key]
            ELSE IF ~contains_key(a.m, key) THEN b.m[key]
            ELSE Overlay(a.m[key], b.m[key])])
    ELSE a

RECURSIVE SubsetsUpTo(_, _)
SubsetsUpTo(n, size) ==
    IF size = 0 THEN {{}}
    ELSE LET P == SubsetsUpTo(n, size - 1)
         IN  P \cup {s \cup {i} : s \in P, i \in 1..n}

RECURSIVE Build(_, _, _)
Build(parts, S, i) ==
    IF i > Len(parts) THEN Mapping(EmptyMap)
    ELSE IF i \in S THEN Overlay(parts[i], Build(parts, S, i + 1))
    ELSE Build(parts, S, i + 1)

TreesOf(parts) ==
    {Build(parts, S, 1) : S \in SubsetsUpTo(Len(parts), MaxParts)}

\* one key -> value mapping
M1(key, val) == Mapping(key :> val)

\* the parts of a merge operand whose scalars are all s
MergeParts(s) == <<
    M1("x", Str(s)),
    M1("x", Null),
    M1("x", Sequence(<<Str(s)>>)),
    M1("x", Mapping(EmptyMap)),
    M1("x", M1("y", Str(s))),
    M1("x", M1("y", M1("z", Str(s)))),
    M1("x", M1("z", Sequence(<<Str(s), Str(s)>>))),
    M1("y", Str(s)),
    M1("y", M1("x", Null)),
    M1("z", M1("x", M1("y", Str(s)))) >>

MergeOperands(s) ==
    TreesOf(MergeParts(s)) \cup {Null, Str(s), Sequence(<<Str(s)>>)}

(***************************************************************************)
(* The pipeline of main (main.rs): its inputs                              *)
(***************************************************************************)
\* the tree holding only val at path
RECURSIVE At(_, _)
At(path, val) == IF path = <<>> THEN val ELSE M1(Head(path), At(Tail(path), val))

\* parts of the operator's values.yaml (file1)
ValuesParts == <<
    At(<<"statefulset", "nodeSelector">>, M1("pool", Str("sts"))),
    At(<<"statefulset", "nodeSelector">>, Mapping(EmptyMap)),
    At(<<"statefulset", "tolerations">>, Sequence(<<Str("sts")>>)),
    At(<<"statefulset">>,
       Mapping(("podAntiAffinity" :> M1("topologyKey", Str("host")))
            @@ ("securityContext" :> M1("fsGroup", Str("101")))
            @@ ("replicas" :> Str("3")))),
    At(<<"statefulset", "podAntiAffinity">>, M1("type", Str("hard"))),
    At(<<"statefulset", "topologySpreadConstraints">>,
       Sequence(<<M1("maxSkew", Str("1")), Str("raw")>>)),
    At(<<"statefulset", "annotations">>,
       Mapping(("a" :> Str("new")) @@ ("c" :> Str("new")))),
    At(<<"statefulset", "podTemplate", "annotations">>, M1("a", Str("old"))),
    At(<<"nodeSelector">>, M1("pool", Str("root"))),
    At(<<"tolerations">>, Sequence(<<Str("root")>>)),
    At(<<"affinity">>, Str("root")),
    At(<<"podTemplate", "spec">>,
       Mapping(("nodeSelector" :> M1("pool", Str("canonical")))
            @@ ("tolerations" :> Sequence(<<Str("canonical")>>)))),
    At(<<"external", "service", "domain">>, Str("new.example")),
    At(<<"external", "domain">>, Str("old.example")),
    At(<<"storage", "tieredConfig">>,
       Mapping(("cloud_storage_enabled" :> Bool(TRUE))
            @@ ("cloud_storage_bucket" :> Str("new"))
            @@ ("cloud_storage_region" :> Str("eu"))
            @@ ("cloud_storage_access_key" :> Str("key")))),
    At(<<"storage", "tiered">>,
       Mapping(("config" :> Mapping(("cloud_storage_bucket" :> Str("old"))
                                 @@ ("cloud_storage_secret_key" :> Str("secret"))
                                 @@ ("cloud_storage_cache_size" :> Str("1"))
                                 @@ ("other" :> Str("kept"))))
            @@ ("credentialsSecretRef" :> M1("name", Str("creds"))))),
    At(<<"storage", "tiered", "config">>,
       Mapping(("cloud_storage_enabled" :> Str("true"))
            @@ ("cloud_storage_credentials_source" :> Str("sts")))),
    At(<<"storage">>,
       Mapping(("tieredStorageHostPath" :> Str("/var/lib"))
            @@ ("tieredStoragePersistentVolume" :> M1("size", Str("1Gi"))))),
    At(<<"license_secret_ref">>,
       Mapping(("secret_name" :> Str("redpanda-license"))
            @@ ("secret_key" :> Str("redpanda.license"))
            @@ ("name" :> Str("stale")))),
    At(<<"license_key">>, Str("LICENSE")),
    At(<<"enterprise">>,
       Mapping(("license" :> Str("OLD")) @@ ("licenseSecretRef" :> Mapping(EmptyMap)))),
    At(<<"enterprise">>, Str("scalar")),
    At(<<"resources">>,
       Mapping(("cpu" :> M1("cores", Str("4")))
            @@ ("memory" :> M1("container", M1("max", Str("8Gi")))))),
    At(<<"resources">>,
       Mapping(("requests" :> M1("cpu", Str("1"))) @@ ("limits" :> M1("cpu", Str("2"))))),
    At(<<"console">>,
       Mapping(("enabled" :> Bool(TRUE))
            @@ ("console" :> M1("config",
                  Mapping(("kafka" :>
                             Mapping(("brokers" :> Sequence(<<Str("b:9092")>>))
                                  @@ ("sasl" :> M1("username", Str("u")))
                                  @@ ("schemaRegistry" :>
                                        Mapping(("urls" :> Sequence(<<Str("sr")>>))
                                             @@ ("password" :> Str("p"))))))
                       @@ ("redpanda" :> M1("adminApi", M1("enabled", Bool(TRUE))))))))),
    At(<<"console">>,
       Mapping(("ingress" :> M1("className", Null))
            @@ ("service" :> M1("targetPort", Null))
            @@ ("secret" :> Mapping(("login" :> Str("l")) @@ ("kafka" :> Str("k"))))
            @@ ("enterprise" :> Str("e"))
            @@ ("console" :> M1("config", Str("raw"))))),
    At(<<"image">>,
       Mapping(("tag" :> Str("v23.2.24")) @@ ("pullPolicy" :> Str("Always")))),
    At(<<"image", "tag">>, Str("latest")),
    At(<<"console", "image", "tag">>, Str("v3.3")) >>

\* parts of the reference values.yaml of the latest chart (file2)
ReferenceParts == <<
    \* canonical placeholders and defaults
    Mapping(("podTemplate" :> M1("spec",
                Mapping(("nodeSelector" :> Mapping(EmptyMap))
                     @@ ("tolerations" :> Sequence(<<>>)))))
         @@ ("external" :> M1("domain", Str("")))
         @@ ("image" :> Mapping(("repository" :> Str("redpanda"))
                             @@ ("tag" :> Str(""))))
         @@ ("enterprise" :> Mapping(("license" :> Str(""))
                                  @@ ("licenseSecretRef" :> Mapping(EmptyMap))))),
    \* the disabled tiered storage block and the console defaults
    Mapping(("storage" :> M1("tiered",
                Mapping(("config" :> Mapping(("cloud_storage_enabled" :> Bool(FALSE))
                                           @@ ("cloud_storage_bucket" :> Str(""))
                                           @@ ("cloud_storage_region" :> Str(""))))
                     @@ ("credentialsSecretRef" :> Mapping(EmptyMap)))))
         @@ ("console" :> Mapping(("enabled" :> Bool(TRUE))
                               @@ ("ingress" :> M1("className", Null))
                               @@ ("secret" :> M1("enterprise", Mapping(EmptyMap)))))),
    \* empty versions of the legacy fields themselves
    Mapping(("statefulset" :> Mapping(("nodeSelector" :> Mapping(EmptyMap))
                                   @@ ("tolerations" :> Sequence(<<>>))))
         @@ ("tolerations" :> Sequence(<<>>))
         @@ ("external" :> M1("service", M1("domain", Str(""))))) >>

ValuesTrees == TreesOf(ValuesParts) \cup {Null}

ReferenceTrees ==
    {Build(ReferenceParts, S, 1) : S \in {{1, 2}, {1, 2, 3}}}

\* Option<String> of a command line flag, and of the fetched appVersion
RedpandaVersionArgs == {None, Str("v25.1.1"), Str("latest")}

ConsoleVersionArgs == {None, Str("v3.3.2"), Str("3.3.2")}

FetchedVersions == {None, Str("v3.3.2"), Str("latest")}

(***************************************************************************)
(* Inputs of the registry and of the engine                                *)
(***************************************************************************)
MaxRules == 3

MaxRegistrations == 3

V1 == SchemaVersion_new(1, 9, 9)

V2 == SchemaVersion_new(1, 10, 0)

V3 == SchemaVersion_new(2, 0, 0)

Versions == {V1, V2, V3}

PathA == <<"a">>

PathB == <<"b">>

PathAB == <<"a", ".", "b">>

EngineConfigs ==
    {Null,
     Mapping(EmptyMap),
     M1("a", Str("x")),
     M1("a", Null),
     M1("b", Str("x")),
     M1("a", M1("b", Str("x"))),
     M1("a", Sequence(<<M1("b", Str("x"))>>)),
     Mapping(("a" :> M1("b", Null)) @@ ("b" :> Str("y")))}

RuleMove == TransformationRule_new("move", PathA, PathB, "Move")

RuleAbsent ==
    with_condition(TransformationRule_new("absent", PathAB, PathB, "Copy"),
                   Condition(PathAB, "FieldAbsent", None))

RuleExists ==
    with_priority(with_condition(TransformationRule_new("exists", PathB, PathA, "Remove"),
                                 Condition(PathA, "FieldExists", None)), 200)

RuleEquals ==
    with_priority(with_condition(TransformationRule_new("equals", PathA, PathAB, "Move"),
                                 Condition(PathA, "ValueEquals", Some(Str("x")))), 50)

RuleNotEquals ==
    with_priority(with_condition(TransformationRule_new("differs", PathAB, PathA, "Copy"),
                                 Condition(PathAB, "ValueNotEquals", Some(Null))), 200)

RuleNoId == TransformationRule_new("", PathA, PathB, "Move")

RuleNoSource == TransformationRule_new("nosource", <<>>, PathB, "Remove")

\* rule_list that pass validate_rules
ValidRules == {RuleMove, RuleAbsent, RuleExists, RuleEquals, RuleNotEquals}

SeqsUpTo(S, n) == UNION {[1..len -> S] : len \in 0..n}

\* the rule lists a registry can hand to apply_transformation_rules
RuleLists == SeqsUpTo(ValidRules, MaxRules)

\* the rule sets offered for registration, invalid ones among them
RegisteredRuleSets ==
    {<<RuleMove>>, <<RuleExists, RuleAbsent>>, <<RuleMove, RuleNoId>>,
     <<RuleNoSource, RuleAbsent>>}

RegisteredPairs == {<<V1, V3>>, <<V2, V3>>}

SchemaDefinitions ==
    {SchemaDefinition(v, <<PathAB, PathB>>, <<PathA>>) : v \in Versions}
        \cup {SchemaDefinition(v, <<>>, <<PathAB>>) : v \in Versions}

MigrationPaths == {<<V2, V3>>, <<V3>>}

(***************************************************************************)
(* Idle values of the components a specification does not run              *)
(***************************************************************************)
EngineIdle ==
    /\ self_registry = SchemaRegistry_new
    /\ registered = 0
    /\ input_config = Null
    /\ target_version = None
    /\ source_version = None
    /\ path_to_target = <<>>
    /\ rule_list = <<>>
    /\ applied_transformations = <<>>
    /\ warnings = <<>>
    /\ result = None
    /\ epc = "idle"
    /\ registration = None

PipelineIdle ==
    /\ file1 = Null /\ data1 = Null /\ data2 = Null
    /\ pc = "idle" /\ ran = <<>> /\ output = None

MergeIdle == primary = Null /\ secondary = Null /\ merged = Null /\ mpc = "idle"

HarnessIdle == arg = None /\ ret = None /\ hpc = "idle"

(***************************************************************************)
(* Paths of a tree (sequences of keys)                                     *)
(***************************************************************************)
RECURSIVE Resolve(_, _)
Resolve(tree, path) ==
    IF path = <<>> THEN tree
    ELSE IF is_mapping(tree) /\ contains_key(tree.m, Head(path))
         THEN Resolve(tree.m[Head(path)], Tail(path))
         ELSE None

Present(tree, path) == Resolve(tree, path) # None

\* every path that resolves in tree, the root's empty path included
RECURSIVE Paths(_)
Paths(tree) ==
    {<<>>} \cup
    (IF is_mapping(tree)
     THEN UNION {{<<key>> \o p : p \in Paths(tree.m[key])} : key \in DOMAIN tree.m}
     ELSE {})

Front(path) == SubSeq(path, 1, Len(path) - 1)

(***************************************************************************)
(* The pipeline of main (main.rs): one action per stage                    *)
(***************************************************************************)
main_stages == <<
    "rename_nested_keys", "map_statefulset_to_podtemplate", "migrate_external_config",
    "migrate_console_v2_to_v3", "clean_deprecated_fields", "merge", "pin_versions",
    "clean_empty_cloud_storage", "filter_console_null_values",
    "validate_and_fix_tiered_storage", "validate_against_schema", "write_output" >>

\* the stage order with merge moved before the first cleanup
merged_too_early == <<
    "rename_nested_keys", "map_statefulset_to_podtemplate", "migrate_external_config",
    "migrate_console_v2_to_v3", "merge", "clean_deprecated_fields", "pin_versions",
    "clean_empty_cloud_storage", "filter_console_null_values",
    "validate_and_fix_tiered_storage", "validate_against_schema", "write_output" >>

successor_in(stages, stage) ==
    LET i == CHOOSE j \in 1..Len(stages) : stages[j] = stage
    IN  IF i < Len(stages) THEN stages[i + 1] ELSE "done"

\* faulty variant: main merges before it cleans
stage_after_merge_first(stage) == successor_in(merged_too_early, stage)

\* the stage order with pin_versions moved behind the two cleanups after merge
pinned_after_cleanup == <<
    "rename_nested_keys", "map_statefulset_to_podtemplate", "migrate_external_config",
    "migrate_console_v2_to_v3", "clean_deprecated_fields", "merge",
    "clean_empty_cloud_storage", "filter_console_null_values", "pin_versions",
    "validate_and_fix_tiered_storage", "validate_against_schema", "write_output" >>

\* faulty variant: main pins the versions after the cleanups that follow merge
stage_after_pinned_late(stage) == successor_in(pinned_after_cleanup, stage)

\* the statement main executes after `stage` returns
stage_after(stage) == successor_in(main_stages, stage)

Init ==
    /\ file1 \in ValuesTrees
    /\ data2 \in ReferenceTrees
    /\ data1 = file1
    /\ pc = main_stages[1]
    /\ ran = <<>>
    /\ output = None
    /\ MergeIdle
    /\ EngineIdle
    /\ HarnessIdle

\* `stage` returns leaving `val` in data1
Returns(stage, val) ==
    /\ pc = stage
    /\ data1' = val
    /\ pc' = stage_after(stage)
    /\ ran' = Append(ran, stage)
    /\ UNCHANGED <<file1, data2, output>>
    /\ UNCHANGED notPipeline

\* process::exit(1) out of `stage`
Exits(stage, val) ==
    /\ pc = stage
    /\ data1' = val
    /\ pc' = "exit"
    /\ ran' = Append(ran, stage)
    /\ UNCHANGED <<file1, data2, output>>
    /\ UNCHANGED notPipeline

RenameNestedKeys == Returns("rename_nested_keys", rename_nested_keys(data1))

MapStatefulsetToPodtemplate ==
    Returns("map_statefulset_to_podtemplate", map_statefulset_to_podtemplate(data1))

MigrateExternalConfig ==
    Returns("migrate_external_config", migrate_external_config(data1))

MigrateConsoleV2ToV3 ==
    Returns("migrate_console_v2_to_v3", migrate_console_v2_to_v3(data1))

CleanDeprecatedFields ==
    Returns("clean_deprecated_fields", clean_deprecated_fields(data1))

Merge == Returns("merge", merge(data1, data2))

PinVersions ==
    /\ pc = "pin_versions"
    /\ \E redpanda_version \in RedpandaVersionArgs,
          console_version \in ConsoleVersionArgs, fetched \in FetchedVersions :
           LET pinned == pin_versions(data1, redpanda_version, console_version, fetched)
           IN  IF pinned.ok
               THEN Returns("pin_versions", pinned.val)
               ELSE Exits("pin_versions", pinned.val)

CleanEmptyCloudStorage ==
    Returns("clean_empty_cloud_storage", clean_empty_cloud_storage(data1))

FilterConsoleNullValues ==
    Returns("filter_console_null_values", filter_console_null_values(data1))

ValidateAndFixTieredStorage ==
    Returns("validate_and_fix_tiered_storage", validate_and_fix_tiered_storage(data1)[1])

\* the JSON schema check of the fetched values.schema.json passes or fails
ValidateAgainstSchema ==
    /\ pc = "validate_against_schema"
    /\ \E conforms \in BOOLEAN :
           IF conforms
           THEN Returns("validate_against_schema", data1)
           ELSE Exits("validate_against_schema", data1)

WriteOutput ==
    /\ pc = "write_output"
    /\ output' = data1
    /\ pc' = stage_after("write_output")
    /\ ran' = Append(ran, "write_output")
    /\ UNCHANGED <<file1, data1, data2>>
    /\ UNCHANGED notPipeline

Next ==
    \/ RenameNestedKeys
    \/ MapStatefulsetToPodtemplate
    \/ MigrateExternalConfig
    \/ MigrateConsoleV2ToV3
    \/ CleanDeprecatedFields
    \/ Merge
    \/ PinVersions
    \/ CleanEmptyCloudStorage
    \/ FilterConsoleNullValues
    \/ ValidateAndFixTieredStorage
    \/ ValidateAgainstSchema
    \/ WriteOutput

Spec == Init /\ [][Next]_vars

(***************************************************************************)
(* Merge harness: merge applied to a pair of trees                         *)
(***************************************************************************)
MergeInit ==
    /\ primary \in MergeOperands("1")
    /\ secondary \in MergeOperands("2")
    /\ merged = Null
    /\ mpc = "call"
    /\ PipelineIdle
    /\ EngineIdle
    /\ HarnessIdle

CallMerge ==
    /\ mpc = "call"
    /\ merged' = merge(primary, secondary)
    /\ mpc' = "merged"
    /\ UNCHANGED <<primary, secondary>>
    /\ UNCHANGED notMerge

MergeNext == CallMerge

SpecMerge == MergeInit /\ [][MergeNext]_vars

(***************************************************************************)
(* Rules harness: apply_transformation_rules on a rule list                *)
(***************************************************************************)
RulesInit ==
    /\ input_config \in EngineConfigs
    /\ rule_list \in RuleLists
    /\ epc = "call"
    /\ self_registry = SchemaRegistry_new
    /\ registered = 0
    /\ target_version = None
    /\ source_version = None
    /\ path_to_target = <<>>
    /\ applied_transformations = <<>>
    /\ warnings = <<>>
    /\ result = None
    /\ registration = None
    /\ PipelineIdle
    /\ MergeIdle
    /\ HarnessIdle

ApplyTransformationRules ==
    /\ epc = "call"
    /\ LET done == apply_transformation_rules(input_config, rule_list)
       IN  /\ input_config' = done.config
           /\ applied_transformations' = done.applied
           /\ warnings' = done.warnings
           /\ result' = IF done.ok THEN Ok(<<done.applied, done.warnings>>) ELSE Err(done.err)
    /\ epc' = "returned"
    /\ UNCHANGED <<registration, self_registry, registered, target_version,
                   source_version, path_to_target, rule_list>>
    /\ UNCHANGED notEngine

RulesNext == ApplyTransformationRules

SpecRules == RulesInit /\ [][RulesNext]_vars

(***************************************************************************)
(* Engine: a registry is populated, then one transformation is run         *)
(***************************************************************************)
EngineInit ==
    /\ self_registry = SchemaRegistry_new
    /\ registered = 0
    /\ input_config = Null
    /\ target_version = None
    /\ source_version = None
    /\ path_to_target = <<>>
    /\ rule_list = <<>>
    /\ applied_transformations = <<>>
    /\ warnings = <<>>
    /\ result = None
    /\ epc = "setup"
    /\ registration = None
    /\ PipelineIdle
    /\ MergeIdle
    /\ HarnessIdle

callLocals ==
    <<input_config, target_version, source_version, path_to_target, rule_list,
      applied_transformations, warnings, result, epc>>

Registers(new_registry) ==
    /\ epc = "setup"
    /\ registered < MaxRegistrations
    /\ self_registry' = new_registry
    /\ registered' = registered + 1
    /\ UNCHANGED callLocals
    /\ UNCHANGED notEngine

AddSchema ==
    /\ \E schema \in SchemaDefinitions : Registers(add_schema(self_registry, schema))
    /\ UNCHANGED registration

AddTransformationRules ==
    \E pair \in RegisteredPairs, rule_set \in RegisteredRuleSets :
        LET added == add_transformation_rules(self_registry, pair[1], pair[2], rule_set)
        IN  /\ Registers(IF added.ok THEN added.val ELSE self_registry)
            /\ registration' =
                  [pair |-> pair, rules |-> rule_set,
                   stored_before |-> self_registry.transformation_rules,
                   returned |-> IF added.ok THEN Ok(<<>>) ELSE Err(added.err)]

AddMigrationPath ==
    /\ \E path \in MigrationPaths : Registers(add_migration_path(self_registry, V1, path))
    /\ UNCHANGED registration

\* the call ends: Done with a TransformationResult, Failed with an error
Ends(outcome) ==
    /\ result' = outcome
    /\ epc' = IF outcome.ok THEN "Done" ELSE "Failed"

\* validate_configuration(&input_config, &target_version)? and the result built from it
Validated(applied, warns, source) ==
    LET validation_report == validate_configuration(self_registry, input_config, target_version)
    IN  IF validation_report.ok
        THEN Ok(TransformationResult(input_config, applied, validation_report.val, warns,
                                     source, target_version))
        ELSE Err(RegistryError(validation_report.err))

Transform ==
    /\ epc = "setup"
    /\ \E input \in EngineConfigs :
          /\ input_config' = input
          /\ LET latest_version == get_latest_version(self_registry)
             IN  IF is_some(latest_version)
                 THEN /\ target_version' = latest_version.v
                      /\ epc' = "DetectVersion"
                      /\ UNCHANGED result
                 ELSE /\ Ends(Err([type |-> "RegistryError",
                                   message |-> <<"No schema versions available">>]))
                      /\ UNCHANGED target_version
    /\ UNCHANGED <<registration, self_registry, registered, source_version, path_to_target, rule_list,
                   applied_transformations, warnings>>
    /\ UNCHANGED notEngine

TransformWithTargetVersion ==
    /\ epc = "setup"
    /\ \E input \in EngineConfigs, target \in Versions :
          /\ input_config' = input
          /\ target_version' = target
    /\ epc' = "DetectVersion"
    /\ UNCHANGED <<registration, self_registry, registered, source_version, path_to_target, rule_list,
                   applied_transformations, warnings, result>>
    /\ UNCHANGED notEngine

DetectVersion ==
    /\ epc = "DetectVersion"
    /\ LET detected == detect_version(input_config)
       IN  /\ source_version' = detected.val
           /\ IF is_some(detected.val) /\ detected.val.v = target_version
              THEN Ends(Validated(<<>>, <<>>, detected.val))
              ELSE epc' = "ResolvePath" /\ UNCHANGED result
    /\ UNCHANGED <<registration, self_registry, registered, input_config, target_version, path_to_target, rule_list,
                   applied_transformations, warnings>>
    /\ UNCHANGED notEngine

ResolvePath ==
    /\ epc = "ResolvePath"
    /\ path_to_target' =
          IF is_some(source_version)
          THEN resolve_migration_path(source_version.v, target_version).val
          ELSE <<target_version>>
    /\ epc' = "ApplyRules"
    /\ UNCHANGED <<registration, self_registry, registered, input_config, target_version, source_version, rule_list,
                   applied_transformations, warnings, result>>
    /\ UNCHANGED notEngine

ApplyRules ==
    /\ epc = "ApplyRules"
    /\ LET done == apply_along_path(self_registry,
                       [ok |-> TRUE, config |-> input_config, applied |-> <<>>,
                        warnings |-> <<>>, err |-> None],
                       source_version, path_to_target, 1)
       IN  /\ input_config' = done.config
           /\ applied_transformations' = done.applied
           /\ warnings' = done.warnings
           /\ IF done.ok
              THEN epc' = "Validate" /\ UNCHANGED result
              ELSE Ends(Err(done.err))
    /\ UNCHANGED <<registration, self_registry, registered, target_version,
                   source_version, path_to_target, rule_list>>
    /\ UNCHANGED notEngine

Validate ==
    /\ epc = "Validate"
    /\ Ends(Validated(applied_transformations, warnings, source_version))
    /\ UNCHANGED <<registration, self_registry, registered, input_config, target_version, source_version,
                   path_to_target, rule_list, applied_transformations, warnings>>
    /\ UNCHANGED notEngine

EngineStep == DetectVersion \/ ResolvePath \/ ApplyRules \/ Validate

EngineNext ==
    \/ AddSchema
    \/ AddTransformationRules
    \/ AddMigrationPath
    \/ Transform
    \/ TransformWithTargetVersion
    \/ DetectVersion
    \/ ResolvePath
    \/ ApplyRules
    \/ Validate

SpecEngine == EngineInit /\ [][EngineNext]_vars

(***************************************************************************)
(* C1, C2, C5: the pipeline                                                *)
(***************************************************************************)
Ran(stage) == \E i \in 1..Len(ran) : ran[i] = stage

Before(a, b) == \E i, j \in 1..Len(ran) : i < j /\ ran[i] = a /\ ran[j] = b

StartedOrRan(stage) == pc = stage \/ Ran(stage)

LegacyFields ==
    {[legacy |-> <<"statefulset", "nodeSelector">>,
      canonical |-> <<"podTemplate", "spec", "nodeSelector">>],
     [legacy |-> <<"tolerations">>,
      canonical |-> <<"podTemplate", "spec", "tolerations">>],
     [legacy |-> <<"external", "service", "domain">>,
      canonical |-> <<"external", "domain">>]}

IsEmptyValue(val) == is_empty_mapping(val) \/ is_empty_sequence(val) \/ val = Str("")

\* file1 after the four migration passes
Migrated(tree) ==
    migrate_console_v2_to_v3(migrate_external_config(
        map_statefulset_to_podtemplate(rename_nested_keys(tree))))

\* C1: once the post-merge cleanup passes have run, a legacy field that held a
\* value in the input is absent, its canonical path holds no empty placeholder,
\* and the migrated value is intact there, whatever the reference tree declares.
C1_TwoPhaseDeprecation ==
    Ran("filter_console_null_values") =>
        \A f \in LegacyFields :
            (Present(file1, f.legacy) /\ ~IsEmptyValue(Resolve(file1, f.legacy)))
                => /\ ~Present(data1, f.legacy)
                   /\ ~IsEmptyValue(Resolve(data1, f.canonical))
                   /\ Resolve(data1, f.canonical) = Resolve(Migrated(file1), f.canonical)

Migrations ==
    {"rename_nested_keys", "map_statefulset_to_podtemplate", "migrate_external_config",
     "migrate_console_v2_to_v3"}

\* C2: the migration passes complete before clean_deprecated_fields starts, which
\* completes before merge starts; output is written only after
\* clean_empty_cloud_storage has run after merge.
C2_StageOrder ==
    /\ StartedOrRan("clean_deprecated_fields") =>
          \A m \in Migrations :
              /\ Ran(m)
              /\ Ran("clean_deprecated_fields") => Before(m, "clean_deprecated_fields")
    /\ StartedOrRan("merge") =>
          /\ Ran("clean_deprecated_fields")
          /\ Ran("merge") => Before("clean_deprecated_fields", "merge")
    /\ (output # None \/ pc = "done") =>
          /\ Before("merge", "clean_empty_cloud_storage")
          /\ output = data1

\* a run that wrote its output, having really cleaned and merged on the way
C2_Witness ==
    /\ pc = "done"
    /\ output # None
    /\ output # file1
    /\ Present(file1, <<"statefulset", "nodeSelector">>)
    /\ ~Present(data2, <<"statefulset", "nodeSelector">>)
    /\ ~Present(output, <<"statefulset", "nodeSelector">>)
    /\ Present(data2, <<"image", "repository">>)
    /\ Present(output, <<"image", "repository">>)

Idempotent(P(_), tree) == P(P(tree)) = P(tree)

\* C5: each restructuring pass applied twice gives what it gives applied once, on
\* every tree the pipeline holds (the inputs and every intermediate tree).
C5_PassIdempotence ==
    /\ Idempotent(rename_nested_keys, data1)
    /\ Idempotent(map_statefulset_to_podtemplate, data1)
    /\ Idempotent(migrate_external_config, data1)
    /\ Idempotent(migrate_console_v2_to_v3, data1)
    /\ Idempotent(clean_deprecated_fields, data1)
    /\ Idempotent(clean_empty_cloud_storage, data1)
    /\ Idempotent(clean_old_resource_format, data1)
    /\ Idempotent(filter_console_null_values, data1)

\* a tree that the renaming has changed and leaves alone when applied again,
\* and that the statefulset migration and the cleanup are still to change
C5_Witness ==
    /\ pc = "map_statefulset_to_podtemplate"
    /\ data1 # file1
    /\ Present(file1, <<"license_key">>)
    /\ Present(data1, <<"enterprise", "license">>)
    /\ rename_nested_keys(data1) = data1
    /\ map_statefulset_to_podtemplate(data1) # data1
    /\ clean_deprecated_fields(data1) # data1

(***************************************************************************)
(* C3, C4: merge precedence                                                *)
(***************************************************************************)
ScalarLeaf(val) == val.k \in {"null", "bool", "str"}

BothMappingsAbove(path) ==
    is_mapping(Resolve(primary, Front(path)))
    /\ is_mapping(Resolve(secondary, Front(path)))

\* C3 as stated: after merge every scalar leaf of primary is unchanged at its
\* path, and every key present only in secondary (at whatever path, for any
\* primary) is in the result with secondary's value.
C3_AsStated ==
    mpc = "merged" =>
        /\ \A p \in Paths(primary) :
              ScalarLeaf(Resolve(primary, p))
                  => Resolve(merged, p) = Resolve(primary, p)
        /\ \A p \in Paths(secondary) :
              (p # <<>> /\ ~Present(primary, p))
                  => Resolve(merged, p) = Resolve(secondary, p)

\* C3 amended: every scalar leaf of primary is unchanged, and every key present
\* only in secondary whose enclosing mapping is a mapping in primary too is in
\* the result with exactly secondary's value (its whole subtree).
C3_MergePrecedence ==
    mpc = "merged" =>
        /\ \A p \in Paths(primary) :
              ScalarLeaf(Resolve(primary, p))
                  => Resolve(merged, p) = Resolve(primary, p)
        /\ \A p \in Paths(secondary) :
              (p # <<>> /\ ~Present(primary, p) /\ BothMappingsAbove(p))
                  => Resolve(merged, p) = Resolve(secondary, p)

\* a merge that kept a clashing scalar of primary and, one level down, inserted
\* a subtree that only secondary had
C3_Witness ==
    /\ mpc = "merged"
    /\ Resolve(primary, <<"y">>) = Str("1")
    /\ Resolve(secondary, <<"y">>) = Str("2")
    /\ Resolve(merged, <<"y">>) = Str("1")
    /\ is_mapping(Resolve(primary, <<"x">>))
    /\ ~Present(primary, <<"x", "y">>)
    /\ is_mapping(Resolve(secondary, <<"x", "y">>))
    /\ Resolve(merged, <<"x", "y">>) = Resolve(secondary, <<"x", "y">>)

\* C4: on a key present in both trees with a non-mapping on either side the
\* result holds primary's value unchanged (no recursion, no element-wise merge
\* of sequences), and a non-mapping primary is left untouched.
C4_PrimaryWins ==
    mpc = "merged" =>
        /\ \A p \in Paths(primary) \cap Paths(secondary) :
              (~is_mapping(Resolve(primary, p)) \/ ~is_mapping(Resolve(secondary, p)))
                  => Resolve(merged, p) = Resolve(primary, p)
        /\ ~is_mapping(primary) => merged = primary

\* two different sequences under the same key, primary's kept, while another
\* key was filled in from secondary
C4_Witness ==
    /\ mpc = "merged"
    /\ Resolve(primary, <<"x">>) = Sequence(<<Str("1")>>)
    /\ Resolve(secondary, <<"x">>) = Sequence(<<Str("2")>>)
    /\ Resolve(merged, <<"x">>) = Sequence(<<Str("1")>>)
    /\ merged # primary

(***************************************************************************)
(* C6, C7: apply_transformation_rules                                      *)
(***************************************************************************)
SkipWarning(rule) ==
    TransformationWarning(<<"Rule ", rule.rule_id, " was skipped">>,
                          Some(rule.source_path), "ConditionalSkipped")

InSeq(x, s) == \E i \in 1..Len(s) : s[i] = x

\* C6: after the call, with the conditions read on the tree the call was given
\* (which the call leaves as it was), every rule whose condition is false has a
\* ConditionalSkipped warning, and every rule whose condition is true has been
\* applied: it has an applied transformation and no skip warning.
C6_ConditionGating ==
    epc = "returned" =>
        /\ result.ok
        /\ \A i \in 1..Len(rule_list) :
              IF condition_satisfied(rule_list[i], input_config)
              THEN /\ \E j \in 1..Len(applied_transformations) :
                          applied_transformations[j].rule_id = rule_list[i].rule_id
                   /\ ~InSeq(SkipWarning(rule_list[i]), warnings)
              ELSE InSeq(SkipWarning(rule_list[i]), warnings)

\* the positions of the rules in the order of consideration: descending
\* priority, equal priorities in the order of the list
ConsiderationOrder(rule_seq) ==
    CHOOSE p \in [1..Len(rule_seq) -> 1..Len(rule_seq)] :
        \A i, j \in 1..Len(rule_seq) :
            i < j => \/ rule_seq[p[i]].priority > rule_seq[p[j]].priority
                     \/ /\ rule_seq[p[i]].priority = rule_seq[p[j]].priority
                        /\ p[i] < p[j]

RECURSIVE RecordedFrom(_, _, _, _)
RecordedFrom(rule_seq, tree, p, i) ==
    IF i > Len(rule_seq) THEN <<>>
    ELSE (IF condition_satisfied(rule_seq[p[i]], tree)
          THEN <<SkipWarning(rule_seq[p[i]])>> ELSE <<>>)
         \o RecordedFrom(rule_seq, tree, p, i + 1)

\* C7: the records of a call follow the order of consideration: the warnings
\* are those of the rules with a true condition, by descending priority and,
\* among equal priorities, in the order of the rule list; nothing is recorded
\* as applied out of that order.
C7_PriorityOrder ==
    epc = "returned" =>
        /\ warnings = RecordedFrom(rule_list, input_config,
                                   ConsiderationOrder(rule_list), 1)
        /\ applied_transformations = <<>>

\* three rules, the last of the highest priority and the first two tied, all recorded
C7_Witness ==
    /\ epc = "returned"
    /\ Len(rule_list) = 3
    /\ rule_list[1].priority = rule_list[2].priority
    /\ rule_list[1] # rule_list[2]
    /\ rule_list[3].priority > rule_list[1].priority
    /\ warnings = <<SkipWarning(rule_list[3]), SkipWarning(rule_list[1]),
                    SkipWarning(rule_list[2])>>

(***************************************************************************)
(* C8, C9, C10: transform and transform_with_target_version                *)
(***************************************************************************)
Called == epc \notin {"idle", "setup"}

Ended == epc \in {"Done", "Failed"}

\* the rules registered for a hop that ends at the target of the call
RulesToTarget ==
    {rule \in ValidRules :
        \E pair \in DOMAIN self_registry.transformation_rules :
            /\ pair[2] = target_version
            /\ InSeq(rule, self_registry.transformation_rules[pair])}

\* C8: a call whose source version is not detected ends without an error on
\* that account, its result has no source version, and the rules registered for
\* the target have been applied to the tree: each of them whose condition holds
\* is on record as applied or as skipped.
C8_DirectToTarget ==
    (epc = "Done" /\ source_version = None) =>
        /\ result.val.source_version = None
        /\ \A rule \in RulesToTarget :
              condition_satisfied(rule, input_config) =>
                  \/ InSeq(SkipWarning(rule), result.val.warnings)
                  \/ \E j \in 1..Len(result.val.applied_transformations) :
                        result.val.applied_transformations[j].rule_id = rule.rule_id

\* C9: a call whose target schema is registered ends in Done with a result; a
\* required field the tree lacks makes the report invalid and is listed as
\* missing, and the report is invalid only when a field is listed.
C9_ValidationNeverAborts ==
    (Ended /\ contains_key(self_registry.schemas, target_version)) =>
        /\ epc = "Done"
        /\ result.ok
        /\ LET report == result.val.validation_report
               required == self_registry.schemas[target_version].required_fields
           IN  /\ \A i \in 1..Len(required) :
                      ~field_exists(input_config, required[i]) =>
                          /\ ~report.is_valid
                          /\ InSeq(required[i], report.missing_required_fields)
               /\ ~report.is_valid <=> report.missing_required_fields # <<>>

\* a call that ended in Done with an invalid report
C9_Witness ==
    /\ epc = "Done"
    /\ result.ok
    /\ ~result.val.validation_report.is_valid
    /\ result.val.validation_report.missing_required_fields = <<PathAB, PathB>>
    /\ result.val.transformed_config = input_config

\* the loop of the call entered with a known current version
HopFrom(source, target) ==
    apply_along_path(self_registry,
        [ok |-> TRUE, config |-> input_config, applied |-> <<>>, warnings |-> <<>>,
         err |-> None],
        Some(source), <<target>>, 1)

\* C10: a call that ended is Done with a result or Failed with a RegistryError
\* and no result; it is Failed when the target schema is not registered; the
\* loop fails with a RegistryError on a hop without a registered rule set; and
\* a call that has not ended can take its next step.
C10_RegistryErrorsFatal ==
    /\ epc = "Done" => result.ok /\ result.err = None
    /\ epc = "Failed" =>
          /\ ~result.ok
          /\ result.val = None
          /\ result.err.type = "RegistryError"
    /\ (Called /\ ~Ended) => (result = None /\ ENABLED EngineStep)
    /\ (Ended /\ ~contains_key(self_registry.schemas, target_version)) =>
          /\ epc = "Failed"
          /\ target_version # None => result.err.message[1] = "SchemaNotFound"
    /\ Called =>
          \A source \in Versions, target \in Versions :
              ~contains_key(self_registry.transformation_rules, <<source, target>>) =>
                  /\ ~HopFrom(source, target).ok
                  /\ HopFrom(source, target).err.type = "RegistryError"
                  /\ HopFrom(source, target).err.message[1] = "NoTransformationRules"

\* a call for an unregistered target, with rule sets registered, that ended in Failed
C10_Witness ==
    /\ epc = "Failed"
    /\ target_version \in Versions
    /\ ~contains_key(self_registry.schemas, target_version)
    /\ self_registry.schemas # EmptyHashMap
    /\ self_registry.transformation_rules # EmptyHashMap
    /\ result.err.message = <<"SchemaNotFound", to_string(target_version)>>

(***************************************************************************)
(* C11: add_transformation_rules                                           *)
(***************************************************************************)
RuleIsValid(rule) == rule.rule_id # "" /\ rule.source_path # <<>>

AllValid(rule_seq) == \A i \in 1..Len(rule_seq) : RuleIsValid(rule_seq[i])

\* C11: every rule stored in the registry has a non-empty rule_id and a
\* non-empty source_path; the last add_transformation_rules returned
\* RuleValidationFailed exactly when its rule set held a rule with an empty
\* rule_id or source_path, and then the stored rule sets are those from before
\* the call; when it returned Ok its rule set is the one stored for its pair.
C11_RejectsInvalidRules ==
    /\ \A pair \in DOMAIN self_registry.transformation_rules :
          AllValid(self_registry.transformation_rules[pair])
    /\ registration # None =>
          IF AllValid(registration.rules)
          THEN /\ registration.returned.ok
               /\ self_registry.transformation_rules[registration.pair] = registration.rules
          ELSE /\ ~registration.returned.ok
               /\ registration.returned.err.type = "RuleValidationFailed"
               /\ self_registry.transformation_rules = registration.stored_before

\* a rule set with an empty rule_id was refused for a pair that keeps its earlier set
C11_Witness ==
    /\ registration # None
    /\ registration.rules = <<RuleMove, RuleNoId>>
    /\ ~registration.returned.ok
    /\ registration.returned.err.message = <<"Rule ID cannot be empty">>
    /\ contains_key(self_registry.transformation_rules, registration.pair)
    /\ self_registry.transformation_rules[registration.pair] = <<RuleExists, RuleAbsent>>

(***************************************************************************)
(* Report harness: a ValidationReport and the calls that fill it           *)
(***************************************************************************)
MaxReportCalls == 3

ValidationErrors ==
    {ValidationError(PathA, "InvalidFieldType", "expected a mapping", None),
     ValidationError(PathAB, "MissingRequiredField", "required", Some("add it"))}

ValidationWarnings ==
    {ValidationWarning(PathA, "DeprecatedField", "deprecated", Some("remove it")),
     ValidationWarning(PathB, "PotentialIssue", "check", None)}

ReportedPaths == {PathA, PathAB}

\* the number of calls the report has taken
ReportCalls(report) ==
    Len(report.errors) + Len(report.warnings) + Len(report.deprecated_fields)
        + Len(report.missing_required_fields)

ReportInit ==
    /\ ret = ValidationReport_new
    /\ arg = None
    /\ hpc = "report"
    /\ PipelineIdle
    /\ MergeIdle
    /\ EngineIdle

\* the call `op` leaves `report`
Records(op, report) ==
    /\ hpc = "report"
    /\ ReportCalls(ret) < MaxReportCalls
    /\ arg' = [op |-> op, was_valid |-> ret.is_valid]
    /\ ret' = report
    /\ UNCHANGED hpc
    /\ UNCHANGED notHarness

AddError == \E error \in ValidationErrors : Records("add_error", add_error(ret, error))

AddWarning ==
    \E warning \in ValidationWarnings : Records("add_warning", add_warning(ret, warning))

AddDeprecatedField ==
    \E field_path \in ReportedPaths :
        Records("add_deprecated_field", add_deprecated_field(ret, field_path))

AddMissingRequiredField ==
    \E field_path \in ReportedPaths :
        Records("add_missing_required_field", add_missing_required_field(ret, field_path))

ReportNext == AddError \/ AddWarning \/ AddDeprecatedField \/ AddMissingRequiredField

SpecReport == ReportInit /\ [][ReportNext]_vars

(***************************************************************************)
(* C12: ValidationReport                                                   *)
(***************************************************************************)
\* C12: a report is valid exactly when it has no error and no missing required
\* field (a new report is valid); a call never makes an invalid report valid,
\* add_warning and add_deprecated_field leave is_valid as it was, and add_error
\* and add_missing_required_field leave it false.
C12_ValidityMonotone ==
    hpc = "report" =>
        /\ ret.is_valid <=> ~has_errors(ret)
        /\ ReportCalls(ret) = 0 => ret.is_valid
        /\ arg # None =>
              /\ ~arg.was_valid => ~ret.is_valid
              /\ arg.op \in {"add_warning", "add_deprecated_field"} =>
                    ret.is_valid = arg.was_valid
              /\ arg.op \in {"add_error", "add_missing_required_field"} => ~ret.is_valid
        /\ \A warning \in ValidationWarnings :
              add_warning(ret, warning).is_valid = ret.is_valid
        /\ \A field_path \in ReportedPaths :
              /\ add_deprecated_field(ret, field_path).is_valid = ret.is_valid
              /\ ~add_missing_required_field(ret, field_path).is_valid
        /\ \A error \in ValidationErrors : ~add_error(ret, error).is_valid

\* a warning recorded on a report that an error had made invalid
C12_Witness ==
    /\ hpc = "report"
    /\ arg # None
    /\ arg.op = "add_warning"
    /\ ~arg.was_valid
    /\ ~ret.is_valid
    /\ Len(ret.errors) = 1
    /\ Len(ret.warnings) = 1
    /\ has_warnings(ret)

(***************************************************************************)
(* Pin harness: pin_versions called on a tree with the two flags and the   *)
(* answer of fetch_chart_app_version                                       *)
(***************************************************************************)
\* the image entry of the root: absent, no mapping, or a mapping with or without tag
PinImages ==
    {None,
     Str("latest"),
     Mapping(EmptyMap),
     M1("tag", Str("")),
     M1("tag", Str("v23.2.24")),
     M1("tag", Str("latest"))}

PinConsoles ==
    {None,
     M1("enabled", Bool(TRUE)),
     Mapping(("enabled" :> Bool(FALSE)) @@ ("image" :> M1("tag", Str("3.3.2")))),
     Mapping(("enabled" :> Bool(TRUE)) @@ ("image" :> M1("tag", Str("v3.1.0-rc.1")))),
     Mapping(("enabled" :> Bool(TRUE)) @@ ("image" :> M1("tag", Str("3.3.2")))),
     Mapping(("enabled" :> Bool(TRUE)) @@ ("image" :> Str("latest")))}

PinTrees ==
    {Null} \cup
    {Mapping(or_insert_some(or_insert_some(EmptyMap, "image", image), "console", console)) :
        image \in PinImages, console \in PinConsoles}

PinRedpandaArgs == {None, Some("v25.1.1"), Some("v3.1.0-"), Some("latest")}

PinConsoleArgs == {None, Some("v3.3.2"), Some("3.3.2"), Some("v3.1.0+b")}

PinFetched == {None, Some("v3.3.2"), Some("latest"), Some("v3.3")}

PinInit ==
    /\ arg \in [val : PinTrees, redpanda_version_arg : PinRedpandaArgs,
                console_version_arg : PinConsoleArgs, fetched : PinFetched]
    /\ ret = None
    /\ hpc = "pin_versions"
    /\ PipelineIdle
    /\ MergeIdle
    /\ EngineIdle

CallPinVersions ==
    /\ hpc = "pin_versions"
    /\ ret' = pin_versions(arg.val, arg.redpanda_version_arg, arg.console_version_arg,
                           arg.fetched)
    /\ hpc' = "pinned"
    /\ UNCHANGED arg
    /\ UNCHANGED notHarness

PinNext == CallPinVersions

SpecPin == PinInit /\ [][PinNext]_vars

(***************************************************************************)
(* C13 .. C15: pin_versions                                                *)
(***************************************************************************)
ImageTag == <<"image", "tag">>

ConsoleImageTag == <<"console", "image", "tag">>

\* the string a tag path holds, None for an absent, empty or non-string tag
TagAt(tree, path) == non_empty_str_at(tree, path)

WellFormed(version) == regex_is_match(VersionChars[version])

\* C13: every version string pin_versions writes at image.tag or
\* console.image.tag is well formed, whether it came from a flag or from the
\* fetched appVersion, and a malformed tag the tree already had makes the call fail.
C13_WrittenVersionsWellFormed ==
    hpc = "pinned" =>
        \A path \in {ImageTag, ConsoleImageTag} :
            /\ Resolve(ret.val, path) # Resolve(arg.val, path) =>
                  /\ Resolve(ret.val, path).k = "str"
                  /\ WellFormed(Resolve(ret.val, path).v)
            /\ (TagAt(arg.val, path) # None /\ ~WellFormed(TagAt(arg.val, path).v)) =>
                  ~ret.ok

\* C14: when pin_versions returns Err the tree is as it was on entry.
C14_NoMutationOnErr == (hpc = "pinned" /\ ~ret.ok) => ret.val = arg.val

\* the Console half rejects: Console is enabled and the tag it has, or else the
\* version supplied for it, is malformed
ConsoleRejects(tree, console_version_arg) ==
    /\ Resolve(tree, <<"console", "enabled">>) = Bool(TRUE)
    /\ IF TagAt(tree, ConsoleImageTag) # None
       THEN ~WellFormed(TagAt(tree, ConsoleImageTag).v)
       ELSE console_version_arg # None /\ ~WellFormed(console_version_arg.v)

\* C15 as stated: without a tag and without a supplied version the call fails with
\* 'version required'; without a tag and with a well-formed V it succeeds and
\* image.tag = V; a well-formed tag already present is preserved.
C15_AsStated ==
    hpc = "pinned" =>
        LET current == TagAt(arg.val, ImageTag)
            supplied == arg.redpanda_version_arg
        IN  /\ (current = None /\ supplied = None) =>
                  ~ret.ok /\ ret.err = "version_required"
            /\ (current = None /\ supplied # None /\ WellFormed(supplied.v)) =>
                  ret.ok /\ Resolve(ret.val, ImageTag) = Str(supplied.v)
            /\ (current # None /\ WellFormed(current.v)) =>
                  Resolve(ret.val, ImageTag) = current

\* C15: without a tag and without a supplied version the call fails with
\* 'version required'; without a tag and with a well-formed V the call fails only
\* when the Console half rejects, and image.tag = V afterwards whenever the root is
\* a mapping whose image entry is absent or a mapping (otherwise the tree keeps
\* its image entry); a well-formed tag already present is preserved, also when
\* another version is supplied.
C15_RedpandaPinning ==
    hpc = "pinned" =>
        LET current == TagAt(arg.val, ImageTag)
            supplied == arg.redpanda_version_arg
            image == Resolve(arg.val, <<"image">>)
        IN  /\ (current = None /\ supplied = None) =>
                  /\ ~ret.ok
                  /\ ret.err = "version_required"
                  /\ ret.val = arg.val
            /\ (current = None /\ supplied # None /\ WellFormed(supplied.v)) =>
                  /\ ret.ok <=> ~ConsoleRejects(arg.val, arg.console_version_arg)
                  /\ IF is_mapping(arg.val) /\ (image = None \/ is_mapping(image))
                     THEN Resolve(ret.val, ImageTag) = Str(supplied.v)
                     ELSE Resolve(ret.val, <<"image">>) = image
            /\ (current # None /\ WellFormed(current.v)) =>
                  /\ Resolve(ret.val, ImageTag) = current
                  /\ ret.ok <=> ~ConsoleRejects(arg.val, arg.console_version_arg)

\* a tree without image.tag pinned to the supplied version, where the tree had a
\* Console tag of its own
C15_Witness ==
    /\ hpc = "pinned"
    /\ ret.ok
    /\ ~Present(arg.val, <<"image">>)
    /\ arg.redpanda_version_arg = Some("v25.1.1")
    /\ Resolve(ret.val, ImageTag) = Str("v25.1.1")
    /\ Resolve(ret.val, ConsoleImageTag) = Str("v3.1.0-rc.1")

(***************************************************************************)
(* C16: migration paths                                                    *)
(***************************************************************************)
\* C16 as stated: for every source and target, whatever add_migration_path has
\* registered, resolve_migration_path and get_migration_path both answer the
\* single-element path [target].
C16_AsStated ==
    \A source \in Versions, target \in Versions :
        /\ resolve_migration_path(source, target) = Ok(<<target>>)
        /\ get_migration_path(self_registry, source, target) = Some(<<target>>)

\* the path registered for source holds target
RegisteredThrough(registry, source, target) ==
    /\ contains_key(registry.migration_paths, source)
    /\ \E i \in 1..Len(registry.migration_paths[source]) :
          registry.migration_paths[source][i] = target

\* C16: resolve_migration_path answers [target] for every source and target.
\* get_migration_path answers [target] when source = target and when the path
\* registered for source does not hold target (or none is registered); when it
\* does, the answer is the registered path up to and including the first target,
\* intermediate versions included.
C16_MigrationPath ==
    \A source \in Versions, target \in Versions :
        LET found == get_migration_path(self_registry, source, target)
        IN  /\ resolve_migration_path(source, target) = Ok(<<target>>)
            /\ is_some(found)
            /\ found.v # <<>>
            /\ found.v[Len(found.v)] = target
            /\ IF source # target /\ RegisteredThrough(self_registry, source, target)
               THEN /\ Len(found.v) <= Len(self_registry.migration_paths[source])
                    /\ found.v = SubSeq(self_registry.migration_paths[source], 1, Len(found.v))
                    /\ \A i \in 1..(Len(found.v) - 1) : found.v[i] # target
               ELSE found.v = <<target>>

\* a registered two-hop path: the registry answers it, the engine's resolution
\* answers the target alone
C16_Witness ==
    /\ contains_key(self_registry.migration_paths, V1)
    /\ self_registry.migration_paths[V1] = <<V2, V3>>
    /\ get_migration_path(self_registry, V1, V3) = Some(<<V2, V3>>)
    /\ get_migration_path(self_registry, V1, V2) = Some(<<V2>>)
    /\ resolve_migration_path(V1, V3) = Ok(<<V3>>)
    /\ epc = "ApplyRules"
    /\ path_to_target = <<target_version>>

(***************************************************************************)
(* C17: validate_configuration                                             *)
(***************************************************************************)
\* the keys a field path of the schemas names, one per dot-separated segment
Segments == (PathA :> <<"a">>) @@ (PathB :> <<"b">>) @@ (PathAB :> <<"a", "b">>)

\* the mapping lookups along the field path all succeed, whatever the value found
FieldPresent(tree, field_path) == Present(tree, Segments[field_path])

\* the entries of field_paths, in order, that are (or are not) present in tree
PresentFields(tree, field_paths) ==
    SelectSeq(field_paths, LAMBDA field_path : FieldPresent(tree, field_path))

AbsentFields(tree, field_paths) ==
    SelectSeq(field_paths, LAMBDA field_path : ~FieldPresent(tree, field_path))

\* C17: for a registered version validate_configuration reports as missing exactly
\* the required fields that are absent from the tree (a null value is present) and
\* as deprecated exactly the deprecated fields that are present; the report is
\* invalid exactly when a required field is missing. For an unregistered version
\* it returns SchemaNotFound.
C17_ValidateConfiguration ==
    \A config \in EngineConfigs, version \in Versions :
        LET validated == validate_configuration(self_registry, config, version)
        IN  IF contains_key(self_registry.schemas, version)
            THEN LET schema == self_registry.schemas[version]
                     report == validated.val
                 IN  /\ validated.ok
                     /\ report.missing_required_fields =
                            AbsentFields(config, schema.required_fields)
                     /\ report.deprecated_fields =
                            PresentFields(config, schema.deprecated_fields)
                     /\ report.errors = <<>>
                     /\ report.warnings = <<>>
                     /\ report.is_valid <=> report.missing_required_fields = <<>>
            ELSE /\ ~validated.ok
                 /\ validated.err.type = "SchemaNotFound"

\* a call that ended with a valid report: the required a.b is there with a null
\* value and the deprecated a is reported
C17_Witness ==
    /\ epc = "Done"
    /\ input_config = Mapping(("a" :> M1("b", Null)) @@ ("b" :> Str("y")))
    /\ self_registry.schemas[target_version].required_fields = <<PathAB, PathB>>
    /\ result.val.validation_report.is_valid
    /\ result.val.validation_report.missing_required_fields = <<>>
    /\ result.val.validation_report.deprecated_fields = <<PathA>>
    /\ ~contains_key(self_registry.schemas, V1)
    /\ ~validate_configuration(self_registry, input_config, V1).ok

(***************************************************************************)
(* Path harness: get_nested_value and field_exists on one tree and path    *)
(***************************************************************************)
PathTrees ==
    EngineConfigs \cup
    {Str("x"),
     Sequence(<<M1("a", Str("x"))>>),
     M1("", Str("x")),
     M1("ab", Str("x")),
     M1("a", M1("", Null)),
     M1("a", Sequence(<<>>)),
     M1("a", M1("b", M1("a", Bool(TRUE)))),
     Mapping(("a" :> Str("x")) @@ ("b" :> M1("a", Sequence(<<Str("x")>>))))}

\* a path as the code gets it (text) and the keys its segments name
FieldPath(text, keys) == [text |-> text, keys |-> keys]

FieldPaths ==
    {FieldPath(<<>>, <<"">>),
     FieldPath(PathA, <<"a">>),
     FieldPath(PathB, <<"b">>),
     FieldPath(PathAB, <<"a", "b">>),
     FieldPath(<<"a", "b">>, <<"ab">>),
     FieldPath(<<"a", ".">>, <<"a", "">>),
     FieldPath(<<"b", ".", "a">>, <<"b", "a">>),
     FieldPath(<<"a", ".", "b", ".", "a">>, <<"a", "b", "a">>)}

PathInit ==
    /\ arg \in [tree : PathTrees, path : FieldPaths]
    /\ ret = None
    /\ hpc = "get_nested_value"
    /\ PipelineIdle
    /\ MergeIdle
    /\ EngineIdle

CallGetNestedValue ==
    /\ hpc = "get_nested_value"
    /\ ret' = [value |-> get_nested_value(arg.tree, arg.path.text), exists |-> None]
    /\ hpc' = "field_exists"
    /\ UNCHANGED arg
    /\ UNCHANGED notHarness

CallFieldExists ==
    /\ hpc = "field_exists"
    /\ ret' = [ret EXCEPT !.exists = Some(field_exists(arg.tree, arg.path.text))]
    /\ hpc' = "looked_up"
    /\ UNCHANGED arg
    /\ UNCHANGED notHarness

PathNext == CallGetNestedValue \/ CallFieldExists

SpecPath == PathInit /\ [][PathNext]_vars

(***************************************************************************)
(* C18: path resolution                                                    *)
(***************************************************************************)
\* C18: a path resolves by one mapping lookup per segment and is absent at the
\* first missing segment or non-mapping node on the way (a sequence included);
\* field_exists is true exactly when get_nested_value returns a value, and the
\* value returned is the node the lookups end at.
C18_PathResolution ==
    hpc = "looked_up" =>
        /\ ret.exists.v <=> is_some(ret.value)
        /\ ret.exists.v <=> Present(arg.tree, arg.path.keys)
        /\ is_some(ret.value) => ret.value.v = Resolve(arg.tree, arg.path.keys)
        /\ \A n \in 0..(Len(arg.path.keys) - 1) :
              LET node == Resolve(arg.tree, SubSeq(arg.path.keys, 1, n))
              IN  ~is_mapping(node) => ~ret.exists.v /\ ret.value = None

\* a.b asked of a tree whose a is a sequence holding a mapping with b: absent
C18_Witness ==
    /\ hpc = "looked_up"
    /\ arg.tree = M1("a", Sequence(<<M1("b", Str("x"))>>))
    /\ arg.path.text = PathAB
    /\ ret.exists = Some(FALSE)
    /\ ret.value = None
    /\ get_nested_value(arg.tree, PathA) = Some(Sequence(<<M1("b", Str("x"))>>))

(***************************************************************************)
(* Rename harness: rename_nested_keys on a tree whose storage-like node    *)
(* is the root or sits below the key storage                               *)
(***************************************************************************)
\* what a key of the node holds; None for a key the node does not have
TieredConfigEntries ==
    {None, Str("raw"), M1("k1", Str("new")),
     Mapping(("k1" :> Str("new")) @@ ("k2" :> Str("new")))}

TieredEntries ==
    {None, Str("raw"), Mapping(EmptyMap), M1("config", M1("k1", Str("old"))),
     M1("config", Str("raw"))}

HostPathEntries == {None, Str("/var/cache")}

PersistentVolumeEntries == {None, M1("size", Str("1Gi"))}

LicenseKeyEntries == {None, Str("license")}

LicenseSecretRefEntries ==
    {None, M1("secret_name", Str("s")), M1("name", Str("s")),
     Mapping(("secret_name" :> Str("s")) @@ ("secret_key" :> Str("k"))
             @@ ("optional" :> Bool(TRUE)))}

EnterpriseEntries == {None, Str("raw"), M1("license", Str("old"))}

RenameNodes ==
    {Mapping(or_insert_some(or_insert_some(or_insert_some(or_insert_some(
             or_insert_some(or_insert_some(or_insert_some(EmptyMap,
                 "tieredConfig", tiered_config),
                 "tiered", tiered),
                 "tieredStorageHostPath", host_path),
                 "tieredStoragePersistentVolume", persistent_volume),
                 "license_key", license_key),
                 "license_secret_ref", license_secret_ref),
                 "enterprise", enterprise)) :
        tiered_config \in TieredConfigEntries, tiered \in TieredEntries,
        host_path \in HostPathEntries, persistent_volume \in PersistentVolumeEntries,
        license_key \in LicenseKeyEntries, license_secret_ref \in LicenseSecretRefEntries,
        enterprise \in EnterpriseEntries}

RenameTrees == RenameNodes \cup {M1("storage", node) : node \in RenameNodes}

RenameInit ==
    /\ arg \in RenameTrees
    /\ ret = None
    /\ hpc = "rename_nested_keys"
    /\ PipelineIdle
    /\ MergeIdle
    /\ EngineIdle

CallRenameNestedKeys ==
    /\ hpc = "rename_nested_keys"
    /\ ret' = rename_nested_keys(arg)
    /\ hpc' = "renamed"
    /\ UNCHANGED arg
    /\ UNCHANGED notHarness

RenameNext == CallRenameNestedKeys

SpecRename == RenameInit /\ [][RenameNext]_vars

(***************************************************************************)
(* C19, C20: the relocations of rename_nested_keys                         *)
(***************************************************************************)
\* where the node with the legacy keys sits in a tree of the harness
NodePaths == {<<>>, <<"storage">>}

\* C19: where a node has a tieredConfig mapping, after the pass tieredConfig is
\* gone, every key of it is in tiered.config, and a key that tiered.config
\* already had keeps the value it had.
C19_HoistInsertIfAbsent ==
    hpc = "renamed" =>
        \A at \in NodePaths :
            LET before == Resolve(arg, at)
                after == Resolve(ret, at)
                config_before == Resolve(before, <<"tiered", "config">>)
                config_after == Resolve(after, <<"tiered", "config">>)
            IN  (is_mapping(before) /\ has_mapping(before.m, "tieredConfig")) =>
                    /\ ~Present(after, <<"tieredConfig">>)
                    /\ is_mapping(config_after)
                    /\ \A key \in DOMAIN before.m["tieredConfig"].m :
                          contains_key(config_after.m, key)
                    /\ is_mapping(config_before) =>
                          \A key \in DOMAIN config_before.m :
                              /\ contains_key(config_after.m, key)
                              /\ config_after.m[key] = config_before.m[key]

\* source key, target path
Relocations ==
    {<<"tieredStorageHostPath", <<"tiered", "hostPath">>>>,
     <<"tieredStoragePersistentVolume", <<"tiered", "persistentVolume">>>>,
     <<"license_key", <<"enterprise", "license">>>>,
     <<"license_secret_ref", <<"enterprise", "licenseSecretRef">>>>}

\* C20: where a node has the source key of a relocation, after the pass the source
\* key is gone and the target path holds the value the source key had, the
\* target's parent created if it was not there.
C20_RelocatePreservesValue ==
    hpc = "renamed" =>
        \A at \in NodePaths, relocation \in Relocations :
            LET before == Resolve(arg, at)
                after == Resolve(ret, at)
            IN  (is_mapping(before) /\ contains_key(before.m, relocation[1])) =>
                    /\ ~Present(after, <<relocation[1]>>)
                    /\ Resolve(after, relocation[2]) = before.m[relocation[1]]

(***************************************************************************)
(* C21: license_secret_ref                                                 *)
(***************************************************************************)
\* the reference with secret_name and secret_key renamed to name and key
RenamedReference(ref) ==
    [key \in (DOMAIN ref \ {"secret_name", "secret_key"}) \cup {"name", "key"} |->
        IF key = "name" THEN ref["secret_name"]
        ELSE IF key = "key" THEN ref["secret_key"]
        ELSE ref[key]]

EnabledEntries == {None, Bool(TRUE), Bool(FALSE), Str("true")}

OptionalEntry == {None, Str("set")}

\* storage.tiered.config: cloud_storage_enabled as given, each other key set or not
CloudConfigs ==
    {Mapping(or_insert_some(or_insert_some(or_insert_some(or_insert_some(
             or_insert_some(or_insert_some(or_insert_some(EmptyMap,
                 "cloud_storage_enabled", enabled),
                 "cloud_storage_bucket", bucket),
                 "cloud_storage_region", region),
                 "cloud_storage_access_key", access_key),
                 "cloud_storage_secret_key", secret_key),
                 "cloud_storage_credentials_source", creds_source),
                 "cloud_storage_cache_size_percent", other)) :
        enabled \in EnabledEntries, bucket \in OptionalEntry, region \in OptionalEntry,
        access_key \in OptionalEntry, secret_key \in OptionalEntry,
        creds_source \in OptionalEntry, other \in OptionalEntry}

CredentialsSecretRefs == {None, M1("name", Str("creds"))}

TieredTrees ==
    {Mapping(("storage" :>
        Mapping(("persistentVolume" :> M1("enabled", Bool(TRUE)))
             @@ ("tiered" :> Mapping(or_insert_some(("config" :> config) @@ ("mountType" :> Str("none")),
                                        "credentialsSecretRef", ref))))))
        : config \in CloudConfigs \cup {Str("raw")}, ref \in CredentialsSecretRefs}
    \cup {Null, Mapping(EmptyMap), M1("storage", Str("raw")),
          M1("storage", M1("tiered", Str("raw"))),
          M1("storage", M1("tiered", M1("credentialsSecretRef", M1("name", Str("creds")))))}

TieredInit ==
    /\ arg \in TieredTrees
    /\ ret = None
    /\ hpc = "tiered"
    /\ PipelineIdle
    /\ MergeIdle
    /\ EngineIdle

CallCleanEmptyCloudStorage ==
    /\ hpc = "tiered"
    /\ ret' = clean_empty_cloud_storage(arg)
    /\ hpc' = "cleaned"
    /\ UNCHANGED arg
    /\ UNCHANGED notHarness

\* ret: <<tree after the call, what was printed>>
CallValidateAndFixTieredStorage ==
    /\ hpc = "tiered"
    /\ ret' = validate_and_fix_tiered_storage(arg)
    /\ hpc' = "validated"
    /\ UNCHANGED arg
    /\ UNCHANGED notHarness

TieredNext == CallCleanEmptyCloudStorage \/ CallValidateAndFixTieredStorage

SpecTiered == TieredInit /\ [][TieredNext]_vars

(***************************************************************************)
(* C22: clean_empty_cloud_storage                                          *)
(***************************************************************************)
TieredConfigPath == <<"storage", "tiered", "config">>

IsPrefix(q, p) == Len(q) <= Len(p) /\ SubSeq(p, 1, Len(q)) = q

\* the paths the pass deletes when tiered storage is not enabled
CloudStoragePaths ==
    {<<"storage", "tiered", "credentialsSecretRef">>}
        \cup {TieredConfigPath \o <<key>> :
                 key \in keys_to_remove \cup {"cloud_storage_bucket", "cloud_storage_region"}}

\* C22: when storage.tiered.config is a mapping whose cloud_storage_enabled is not
\* the boolean true, afterwards the twelve cloud_storage_* keys and
\* storage.tiered.credentialsSecretRef are absent and everything else
\* (cloud_storage_enabled included) is as it was; otherwise the tree is unchanged.
C22_CleanEmptyCloudStorage ==
    hpc = "cleaned" =>
        LET config == Resolve(arg, TieredConfigPath)
        IN  IF is_mapping(config) /\ Resolve(config, <<"cloud_storage_enabled">>) # Bool(TRUE)
            THEN /\ Paths(ret) \subseteq Paths(arg)
                 /\ \A p \in Paths(arg) :
                       IF \E q \in CloudStoragePaths : IsPrefix(q, p)
                       THEN ~Present(ret, p)
                       ELSE /\ Present(ret, p)
                            /\ is_mapping(Resolve(ret, p)) = is_mapping(Resolve(arg, p))
                            /\ ~is_mapping(Resolve(arg, p)) => Resolve(ret, p) = Resolve(arg, p)
            ELSE ret = arg

\* a disabled configuration that had bucket, region, credentials and one more key
C22_Witness ==
    /\ hpc = "cleaned"
    /\ Resolve(arg, TieredConfigPath \o <<"cloud_storage_enabled">>) = Bool(FALSE)
    /\ Present(arg, TieredConfigPath \o <<"cloud_storage_bucket">>)
    /\ Present(arg, TieredConfigPath \o <<"cloud_storage_region">>)
    /\ Present(arg, <<"storage", "tiered", "credentialsSecretRef">>)
    /\ Resolve(ret, <<"storage", "tiered">>) =
          Mapping(("config" :> Mapping(("cloud_storage_enabled" :> Bool(FALSE))
                                       @@ ("cloud_storage_cache_size_percent" :> Str("set"))))
                  @@ ("mountType" :> Str("none")))

(***************************************************************************)
(* Version harness: a string parsed with from_str and rendered again       *)
(***************************************************************************)
MajorTexts == {<<"0">>, <<"2", "3">>, <<"0", "1">>, <<"+", "5">>, <<>>}

MinorTexts == {<<"2">>, <<"1", "0">>, <<"x">>}

PatchTexts ==
    {<<"0">>, <<"2", "4">>, <<"4", "2", "9", "4", "9", "6", "7", "2", "9", "6">>,
     <<"1", "-", "r", "c", "1">>, <<"1", "-", "r", "c", ".", "1">>}

VersionPrefixes == {<<>>, <<"v">>}

VersionTexts ==
    {prefix \o major \o <<".">> \o minor \o <<".">> \o patch :
        prefix \in VersionPrefixes, major \in MajorTexts, minor \in MinorTexts,
        patch \in PatchTexts}
    \cup {<<"i", "n", "v", "a", "l", "i", "d">>, <<"1", ".", "2">>, <<>>}

VersionInit ==
    /\ arg \in VersionTexts
    /\ ret = None
    /\ hpc = "from_str"
    /\ PipelineIdle
    /\ MergeIdle
    /\ EngineIdle

CallFromStr ==
    /\ hpc = "from_str"
    /\ ret' = [parsed |-> from_str(arg), rendered |-> None]
    /\ hpc' = "parsed"
    /\ UNCHANGED arg
    /\ UNCHANGED notHarness

CallToString ==
    /\ hpc = "parsed"
    /\ ret.parsed.ok
    /\ ret' = [ret EXCEPT !.rendered = Some(to_string(ret.parsed.val))]
    /\ hpc' = "rendered"
    /\ UNCHANGED arg
    /\ UNCHANGED notHarness

VersionNext == CallFromStr \/ CallToString

SpecVersion == VersionInit /\ [][VersionNext]_vars

(***************************************************************************)
(* C23: version round trip                                                 *)
(***************************************************************************)
\* C23: a string of the form vMAJOR.MINOR.PATCH with an optional suffix parses,
\* and rendering what was parsed gives the string again.
C23_RoundTrip ==
    regex_is_match(arg) =>
        /\ hpc = "parsed" => ret.parsed.ok
        /\ hpc = "rendered" => ret.rendered = Some(arg)

(***************************************************************************)
(* C24: merge is not commutative                                           *)
(***************************************************************************)
\* the paths both operands reach through mappings where they hold different
\* values, one of them no mapping
Conflicts ==
    {p \in Paths(primary) \cap Paths(secondary) :
        /\ Resolve(primary, p) # Resolve(secondary, p)
        /\ ~is_mapping(Resolve(primary, p)) \/ ~is_mapping(Resolve(secondary, p))}

\* C24: where the operands conflict, merge(primary, secondary) holds primary's
\* value and merge(secondary, primary) holds secondary's, so the two results
\* differ; for {x: 1} and {x: 2} they are {x: 1} and {x: 2}.
C24_NotCommutative ==
    mpc = "merged" =>
        /\ \A p \in Conflicts :
              /\ Resolve(merged, p) = Resolve(primary, p)
              /\ Resolve(merge(secondary, primary), p) = Resolve(secondary, p)
        /\ Conflicts # {} => merged # merge(secondary, primary)
        /\ (primary = M1("x", Str("1")) /\ secondary = M1("x", Str("2"))) =>
              /\ merged = M1("x", Str("1"))
              /\ merge(secondary, primary) = M1("x", Str("2"))

\* A = {x: 1} and B = {x: 2}
C24_Witness ==
    /\ mpc = "merged"
    /\ primary = M1("x", Str("1"))
    /\ secondary = M1("x", Str("2"))
    /\ Resolve(merged, <<"x">>) = Str("1")
    /\ Resolve(merge(secondary, primary), <<"x">>) = Str("2")
    /\ merged # merge(secondary, primary)

(***************************************************************************)
(* C25: Console pinning                                                    *)
(***************************************************************************)
ConsoleEnabled(tree) == Resolve(tree, <<"console", "enabled">>) = Bool(TRUE)

\* the Redpanda half rejects: the tag the tree has is malformed, or it has none
\* and the supplied version is missing or malformed
RedpandaRejects(tree, redpanda_version_arg) ==
    IF TagAt(tree, ImageTag) # None
    THEN ~WellFormed(TagAt(tree, ImageTag).v)
    ELSE redpanda_version_arg = None \/ ~WellFormed(redpanda_version_arg.v)

\* C25 as stated: with Console disabled or absent the call leaves the console
\* entry alone; with Console enabled, no tag and a well-formed V supplied,
\* console.image.tag = V afterwards; an existing tag is preserved.
C25_AsStated ==
    hpc = "pinned" =>
        LET current == TagAt(arg.val, ConsoleImageTag)
            supplied == arg.console_version_arg
        IN  /\ ~ConsoleEnabled(arg.val) =>
                  Resolve(ret.val, <<"console">>) = Resolve(arg.val, <<"console">>)
            /\ (ConsoleEnabled(arg.val) /\ current = None /\ supplied # None
                    /\ WellFormed(supplied.v)) =>
                  Resolve(ret.val, ConsoleImageTag) = Str(supplied.v)
            /\ current # None => Resolve(ret.val, ConsoleImageTag) = current

\* C25: with Console disabled or absent the call leaves the console entry alone,
\* whatever Console version is supplied or fetched; with Console enabled, no tag
\* and a well-formed V supplied, console.image.tag = V afterwards provided the
\* Redpanda half did not reject and console.image is absent or a mapping
\* (otherwise the console entry is as it was); an existing tag is preserved.
C25_ConsolePinning ==
    hpc = "pinned" =>
        LET current == TagAt(arg.val, ConsoleImageTag)
            supplied == arg.console_version_arg
            image == Resolve(arg.val, <<"console", "image">>)
        IN  /\ ~ConsoleEnabled(arg.val) =>
                  Resolve(ret.val, <<"console">>) = Resolve(arg.val, <<"console">>)
            /\ (ConsoleEnabled(arg.val) /\ current = None /\ supplied # None
                    /\ WellFormed(supplied.v)) =>
                  IF ~RedpandaRejects(arg.val, arg.redpanda_version_arg)
                     /\ (image = None \/ is_mapping(image))
                  THEN ret.ok /\ Resolve(ret.val, ConsoleImageTag) = Str(supplied.v)
                  ELSE Resolve(ret.val, <<"console">>) = Resolve(arg.val, <<"console">>)
            /\ current # None => Resolve(ret.val, ConsoleImageTag) = current

\* Console enabled without a tag, pinned to the supplied version beside a
\* Redpanda tag the tree already had
C25_Witness ==
    /\ hpc = "pinned"
    /\ ret.ok
    /\ arg.val = Mapping(("image" :> M1("tag", Str("v23.2.24")))
                         @@ ("console" :> M1("enabled", Bool(TRUE))))
    /\ arg.console_version_arg = Some("v3.3.2")
    /\ arg.fetched = Some("latest")
    /\ ret.val = Mapping(("image" :> M1("tag", Str("v23.2.24")))
                         @@ ("console" :> Mapping(("enabled" :> Bool(TRUE))
                                                  @@ ("image" :> M1("tag", Str("v3.3.2"))))))

(***************************************************************************)
(* C26: the stage order of main                                            *)
(***************************************************************************)
\* C26 as stated: version pinning runs after the cleanup passes that follow merge.
C26_AsStated ==
    Ran("pin_versions") =>
        /\ Before("merge", "clean_empty_cloud_storage")
        /\ Before("clean_empty_cloud_storage", "pin_versions")

StagesInOrder == <<
    "rename_nested_keys", "map_statefulset_to_podtemplate", "migrate_external_config",
    "migrate_console_v2_to_v3", "clean_deprecated_fields", "merge", "pin_versions",
    "clean_empty_cloud_storage", "filter_console_null_values",
    "validate_and_fix_tiered_storage", "validate_against_schema", "write_output" >>

\* C26: the stages run in exactly this order: rename, structural migrate,
\* external-field migrate, Console migrate, cleanup, merge, version pin, the two
\* cleanups after merge, domain validation, schema validation, output; version
\* pinning runs directly after merge and before both cleanups. The run stops
\* early only out of version pinning or schema validation.
C26_StageOrder ==
    /\ Len(ran) <= Len(StagesInOrder)
    /\ ran = SubSeq(StagesInOrder, 1, Len(ran))
    /\ pc \notin {"exit", "done"} => pc = StagesInOrder[Len(ran) + 1]
    /\ pc = "done" => ran = StagesInOrder
    /\ pc = "exit" => ran # <<>> /\ ran[Len(ran)] \in {"pin_versions", "validate_against_schema"}
    /\ Ran("clean_empty_cloud_storage") => Before("pin_versions", "clean_empty_cloud_storage")
    /\ Ran("pin_versions") => Before("merge", "pin_versions")

\* a complete run in which pinning wrote the tag before the cleanups ran
C26_Witness ==
    /\ pc = "done"
    /\ ran = StagesInOrder
    /\ ~Present(file1, <<"image", "tag">>)
    /\ Resolve(output, <<"image", "tag">>) = Str("v25.1.1")
    /\ Before("pin_versions", "filter_console_null_values")

(***************************************************************************)
(* C27: migrate, then delete (main.rs 243-504, 671-817)                    *)
(***************************************************************************)
\* the fields clean_deprecated_fields removes as migrated, the canonical path
\* of each and the form its value takes there
MigratedFields ==
    {[legacy |-> <<"nodeSelector">>, form |-> "same",
      canonical |-> <<"podTemplate", "spec", "nodeSelector">>],
     [legacy |-> <<"tolerations">>, form |-> "same",
      canonical |-> <<"podTemplate", "spec", "tolerations">>],
     [legacy |-> <<"affinity">>, form |-> "same",
      canonical |-> <<"podTemplate", "spec", "affinity">>],
     [legacy |-> <<"statefulset", "nodeSelector">>, form |-> "same",
      canonical |-> <<"podTemplate", "spec", "nodeSelector">>],
     [legacy |-> <<"statefulset", "tolerations">>, form |-> "same",
      canonical |-> <<"podTemplate", "spec", "tolerations">>],
     [legacy |-> <<"statefulset", "podAffinity">>, form |-> "same",
      canonical |-> <<"podTemplate", "spec", "affinity", "podAffinity">>],
     [legacy |-> <<"statefulset", "podAntiAffinity">>, form |-> "anti_affinity",
      canonical |-> <<"podTemplate", "spec", "affinity", "podAntiAffinity">>],
     [legacy |-> <<"statefulset", "nodeAffinity">>, form |-> "same",
      canonical |-> <<"podTemplate", "spec", "affinity", "nodeAffinity">>],
     [legacy |-> <<"statefulset", "securityContext">>, form |-> "same",
      canonical |-> <<"podTemplate", "spec", "securityContext">>],
     [legacy |-> <<"statefulset", "priorityClassName">>, form |-> "same",
      canonical |-> <<"podTemplate", "spec", "priorityClassName">>],
     [legacy |-> <<"statefulset", "topologySpreadConstraints">>, form |-> "label_selectors",
      canonical |-> <<"podTemplate", "spec", "topologySpreadConstraints">>],
     [legacy |-> <<"statefulset", "terminationGracePeriodSeconds">>, form |-> "same",
      canonical |-> <<"podTemplate", "spec", "terminationGracePeriodSeconds">>],
     [legacy |-> <<"statefulset", "annotations">>, form |-> "annotations",
      canonical |-> <<"statefulset", "podTemplate", "annotations">>],
     [legacy |-> <<"external", "service", "domain">>, form |-> "same",
      canonical |-> <<"external", "domain">>]}

\* the value now at the canonical path is the legacy value, or its converted form
CarriesLegacy(form, legacy, now) ==
    CASE form = "anti_affinity" ->
             \/ now = legacy
             \/ now = convert_pod_anti_affinity("podAntiAffinity" :> legacy)
      [] form = "label_selectors" -> now = with_label_selectors(legacy)
      [] form = "annotations" ->
             IF is_mapping(legacy)
             THEN /\ is_mapping(now)
                  /\ \A k \in DOMAIN legacy.m :
                         k \in DOMAIN now.m /\ now.m[k] = legacy.m[k]
             ELSE now = legacy
      [] OTHER -> now = legacy

\* the value now at the canonical path is the one the input already held there
\* (for annotations: key by key)
KeepsCanonical(form, legacy, before, now) ==
    IF form = "annotations" /\ is_mapping(legacy) /\ is_mapping(before)
    THEN /\ is_mapping(now)
         /\ \A k \in DOMAIN legacy.m :
                /\ k \in DOMAIN now.m
                /\ \/ now.m[k] = legacy.m[k]
                   \/ k \in DOMAIN before.m /\ now.m[k] = before.m[k]
    ELSE now = before

ValueSurvives(f, input, tree) ==
    /\ Present(tree, f.canonical)
    /\ \/ CarriesLegacy(f.form, Resolve(input, f.legacy), Resolve(tree, f.canonical))
       \/ /\ Present(input, f.canonical)
          /\ KeepsCanonical(f.form, Resolve(input, f.legacy),
                            Resolve(input, f.canonical), Resolve(tree, f.canonical))

HoldsLegacyValue(input, f) ==
    Present(input, f.legacy) /\ ~IsEmptyValue(Resolve(input, f.legacy))

\* C27: once clean_deprecated_fields has run after the migration passes, every
\* migrated field that held a non-empty value in the input has that value, or
\* its converted form, at its canonical path, or the canonical value the input
\* already held was kept there.
C27_NoValueLost ==
    pc = "merge" =>
        \A f \in MigratedFields :
            HoldsLegacyValue(file1, f) => ValueSurvives(f, file1, data1)

\* the cleanup ran on an input holding a legacy value
C27_Reached ==
    /\ pc = "merge"
    /\ \E f \in MigratedFields : HoldsLegacyValue(file1, f) /\ ValueSurvives(f, file1, data1)

\* statefulset.podAntiAffinity without topologyKey is deleted and migrated nowhere
C27_AntiAffinityLost ==
    /\ pc = "merge"
    /\ file1 = At(<<"statefulset", "podAntiAffinity">>, M1("type", Str("hard")))
    /\ ~Present(data1, <<"statefulset", "podAntiAffinity">>)
    /\ ~Present(data1, <<"podTemplate">>)

\* the root nodeSelector is replaced by the statefulset's and deleted
C27_RootValueLost ==
    /\ pc = "merge"
    /\ Resolve(file1, <<"nodeSelector">>) = M1("pool", Str("root"))
    /\ Resolve(file1, <<"statefulset", "nodeSelector">>) = M1("pool", Str("sts"))
    /\ ~Present(data1, <<"nodeSelector">>)
    /\ Resolve(data1, <<"podTemplate", "spec", "nodeSelector">>) = M1("pool", Str("sts"))

(***************************************************************************)
(* C28: what validate_and_fix_tiered_storage reports (main.rs 1064-1131)   *)
(***************************************************************************)
TieredWarnings == {"warning_no_credentials", "warning_secret_key_missing"}

TieredInfos == {"info_disabled", "info_no_bucket_region"}

\* the tree holds a storage.tiered.config mapping
HasTieredConfig(tree) ==
    Present(tree, TieredConfigPath) /\ is_mapping(Resolve(tree, TieredConfigPath))

ConfigHas(tree, key) == contains_key(Resolve(tree, TieredConfigPath).m, key)

\* cloud_storage_enabled is the boolean true and bucket and region are present
TieredConfigured(tree) ==
    /\ ConfigHas(tree, "cloud_storage_enabled")
    /\ Resolve(tree, TieredConfigPath).m["cloud_storage_enabled"] = Bool(TRUE)
    /\ ConfigHas(tree, "cloud_storage_bucket")
    /\ ConfigHas(tree, "cloud_storage_region")

\* exactly one of the access key and the secret key is present
HalfPair(tree) ==
    ConfigHas(tree, "cloud_storage_access_key") # ConfigHas(tree, "cloud_storage_secret_key")

FullPair(tree) ==
    ConfigHas(tree, "cloud_storage_access_key") /\ ConfigHas(tree, "cloud_storage_secret_key")

\* C28: with tiered storage enabled and bucket and region present, half a key
\* pair is reported as a warning, and so is the absence of both an access key
\* and a credentials source; the configuration is reported as validated only
\* with a complete key pair or a credentials source and no half pair; a
\* disabled or bucket/region-less configuration yields an informational
\* message only.
C28_DomainValidation ==
    (hpc = "validated" /\ HasTieredConfig(arg)) =>
        IF TieredConfigured(arg)
        THEN /\ HalfPair(arg) => ret[2] \in TieredWarnings
             /\ (~ConfigHas(arg, "cloud_storage_access_key")
                 /\ ~ConfigHas(arg, "cloud_storage_credentials_source"))
                    => ret[2] \in TieredWarnings
             /\ ret[2] = "validated" =>
                    /\ FullPair(arg) \/ ConfigHas(arg, "cloud_storage_credentials_source")
                    /\ ~HalfPair(arg)
        ELSE ret[2] \in TieredInfos

\* a secret key without access key, next to a credentials source, is validated
C28_HalfPairValidated ==
    /\ hpc = "validated"
    /\ HasTieredConfig(arg)
    /\ TieredConfigured(arg)
    /\ ~ConfigHas(arg, "cloud_storage_access_key")
    /\ ConfigHas(arg, "cloud_storage_secret_key")
    /\ ConfigHas(arg, "cloud_storage_credentials_source")
    /\ ret[2] = "validated"

(***************************************************************************)
(* C29: validate_and_fix_tiered_storage writes nothing (main.rs 1064-1131) *)
(***************************************************************************)
TieredVerdicts == TieredWarnings \cup TieredInfos \cup {"validated", "none"}

\* C29: whichever branch validate_and_fix_tiered_storage takes, the tree after
\* the call equals the tree before the call.
C29_ReadOnly ==
    hpc = "validated" =>
        /\ ret[1] = arg
        /\ ret[2] \in TieredVerdicts

\* the call warned about missing credentials and left the tree as it was
C29_Witness ==
    /\ hpc = "validated"
    /\ ret[2] = "warning_no_credentials"
    /\ ConfigHas(arg, "cloud_storage_secret_key")
    /\ ret[1] = arg

\* each branch of the function is taken by some input
C29_BranchTaken(verdict) == hpc = "validated" /\ ret[2] = verdict /\ ret[1] = arg

(***************************************************************************)
(* C30: the engine leaves the document as it is                            *)
(* (transformation_engine.rs 89-154, 213-223)                              *)
(***************************************************************************)
\* a registry that holds the schema of the target version and nothing else
SchemaOnly(registry, target) ==
    [SchemaRegistry_new EXCEPT
        !.schemas = [v \in DOMAIN registry.schemas \cap {target} |-> registry.schemas[v]]]

\* what the call returns, computed from the target's schema and the tree alone
OutcomeFromSchema ==
    LET validation_report ==
            validate_configuration(SchemaOnly(self_registry, target_version),
                                   input_config, target_version)
    IN  IF validation_report.ok
        THEN Ok(TransformationResult(input_config, <<>>, validation_report.val, <<>>,
                                     None, target_version))
        ELSE Err(RegistryError(validation_report.err))

ResultLeavesDocument ==
    (Ended /\ target_version # None) =>
        /\ result = OutcomeFromSchema
        /\ epc = "Done" =>
              /\ result.val.transformed_config = input_config
              /\ result.val.applied_transformations = <<>>
              /\ result.val.source_version = None

\* no step of a running call writes the tree
TreeUntouched == Called => input_config' = input_config

\* C30: no step of a call changes the tree it was given; when
\* transform_with_target_version returns a result, transformed_config is that
\* tree, applied_transformations is empty and source_version is absent; and
\* the outcome of the call, the validation report included, is the one
\* computed from the target version's schema and the tree alone, whatever rule
\* sets and migration paths are registered.
C30_EngineNeverChangesDocument == [](ResultLeavesDocument) /\ [][TreeUntouched]_vars

\* a call returned a result while rule sets for a hop to its target and a
\* migration path were registered
C30_Witness ==
    /\ epc = "Done"
    /\ result.ok
    /\ contains_key(self_registry.transformation_rules, <<V1, target_version>>)
    /\ self_registry.transformation_rules[<<V1, target_version>>] # <<>>
    /\ self_registry.migration_paths # EmptyHashMap
    /\ input_config # Null
    /\ result.val.transformed_config = input_config
    /\ result.val.validation_report.deprecated_fields # <<>>

====
